---- MODULE Spec2Model ----
(***************************************************************************)
(* Heritage risk assessment (scripts/heritage_risk_assessment.py).         *)
(*                                                                         *)
(* calculate_comprehensive_risk is modelled as a state machine whose       *)
(* program counter walks the five steps of the method.  Data frames are    *)
(* sequences of records; the pandas index label of a row is the field idx. *)
(*                                                                         *)
(* Geometry.  All features lie on one parallel, so a point is its          *)
(* longitude and a polygon is a rectangle crossing the parallel, given by  *)
(* its longitude interval.  The unit of length is 1/(111 * 10^6) degree,   *)
(* which is one millimetre under the program's conversion of 111 km per    *)
(* degree (line 429).  On a parallel shapely's buffer(0.045) of a point    *)
(* (a 32-gon with vertices on the circle, two of them on the parallel)     *)
(* reaches exactly 0.045 degree, and "within" excludes the boundary.       *)
(*                                                                         *)
(* Scores.  Severity x weight products are kept in tenths, municipal scores *)
(* in hundredths, comprehensive scores in thousandths, so the decimal      *)
(* arithmetic of the program is exact integer arithmetic here.             *)
(***************************************************************************)
EXTENDS Integers, Sequences, FiniteSets, TLC

VARIABLES
    pc,          \* position inside calculate_comprehensive_risk
    heritage,    \* heritage_gdf: input sites
    boundaries,  \* boundaries_gdf: municipality polygons
    alerts,      \* disaster_df: CEMADEN alert records
    dams,        \* dam_gdf: SNISB dam points
    fires,       \* fire_gdf: INPE fire-risk features
    rows,        \* the heritage frame as the steps annotate it
    municipal,   \* municipal_cemaden_risk
    reordered,   \* disaster_df with its records in another order
    batch_cut,   \* disaster_df[:batch_cut] and disaster_df[batch_cut:] as two batches
    aggregates,  \* what _calculate_municipal_cemaden_risk returned for each input
    scores,      \* the scores handed to _categorize_risk_score
    categories,  \* the labels it returned for them
    files,       \* project_data: the source datasets on disk
    data_status, \* what check_all_data_sources returned
    console,     \* what run_comprehensive_assessment printed about its sources and errors
    returned,    \* the result of run_comprehensive_assessment
    output_dir,  \* the names of the files written to comprehensive_assessment
    geojson,     \* the features of comprehensive_heritage_risk.geojson
    read_back,   \* the frame gpd.read_file makes of that file
    points,      \* the records handed to a coordinate check
    checked,     \* what the coordinate check made of them
    scripts_on_disk, \* the scripts present beside master_heritage_pipeline.py
    sources,     \* where the records of each source's files come from
    steps,       \* the scripts run_script has run, with how each ended
    assessed,    \* what the heritage_risk_assessment.py process did
    results_dir, \* the expected result files present in results_dir
    success,     \* the result of run_complete_pipeline
    remote,      \* what the network and the disk hold for a collector to read
    collector,   \* the fields of the collector object
    disk,        \* the files the collector has written
    called,      \* the methods the collector has called, in order
    handed_back  \* what the collector's entry point returned

inputs == <<heritage, boundaries, alerts, dams, fires>>
aggregation == <<reordered, batch_cut, aggregates>>
\* the state of calculate_comprehensive_risk and of the aggregation passes
scoring == <<inputs, rows, municipal, aggregation>>
categorizer == <<scores, categories>>
assessment == <<files, data_status, console, returned, output_dir, geojson, read_back>>
validator == <<points, checked>>
master == <<scripts_on_disk, sources, steps, assessed, results_dir, success>>
collection == <<remote, collector, disk, called, handed_back>>
\* the state outside calculate_comprehensive_risk
elsewhere == <<categorizer, assessment, validator, master, collection>>
vars == <<pc, scoring, elsewhere>>
\* what the steps of each part leave alone
beside_categorizer == <<scoring, assessment, validator, master, collection>>
beside_assessment == <<categorizer, validator, master, collection>>
beside_validator == <<scoring, categorizer, assessment, master, collection>>
beside_master == <<scoring, categorizer, assessment, validator, collection>>
beside_collection == <<scoring, categorizer, assessment, validator, master>>

\* the variables of each part while another part runs
IdleScoring ==
    /\ heritage = <<>>
    /\ boundaries = <<>>
    /\ alerts = <<>>
    /\ dams = <<>>
    /\ fires = <<>>
    /\ rows = <<>>
    /\ municipal = <<>>
    /\ reordered = <<>>
    /\ batch_cut = 0
    /\ aggregates = <<>>

IdleCategorizer ==
    /\ scores = <<>>
    /\ categories = <<>>

IdleAssessment ==
    /\ files = <<>>
    /\ data_status = <<>>
    /\ console = <<>>
    /\ returned = "no call"
    /\ output_dir = {}
    /\ geojson = <<>>
    /\ read_back = <<>>

IdleValidator ==
    /\ points = <<>>
    /\ checked = <<>>

IdleMaster ==
    /\ scripts_on_disk = {}
    /\ sources = <<>>
    /\ steps = <<>>
    /\ assessed = <<>>
    /\ results_dir = {}
    /\ success = "no call"

IdleCollection ==
    /\ remote = <<>>
    /\ collector = <<>>
    /\ disk = <<>>
    /\ called = <<>>
    /\ handed_back = <<>>

IdleElsewhere ==
    IdleCategorizer /\ IdleAssessment /\ IdleValidator /\ IdleMaster /\ IdleCollection
IdleBesideCategorizer ==
    IdleScoring /\ IdleAssessment /\ IdleValidator /\ IdleMaster /\ IdleCollection
IdleBesideAssessment == IdleCategorizer /\ IdleValidator /\ IdleMaster /\ IdleCollection
IdleBesideValidator ==
    IdleScoring /\ IdleCategorizer /\ IdleAssessment /\ IdleMaster /\ IdleCollection
IdleBesideMaster ==
    IdleScoring /\ IdleCategorizer /\ IdleAssessment /\ IdleValidator /\ IdleCollection
IdleBesideCollection ==
    IdleScoring /\ IdleCategorizer /\ IdleAssessment /\ IdleValidator /\ IdleMaster

----------------------------------------------------------------------------
(* Bounds of the model *)

MaxSites == 2
MaxAlerts == 2
MaxAggregatedAlerts == 3
\* how far around each bucket edge the scores handed to _categorize_risk_score reach
MaxScoreMargin == 2
\* the records handed to a coordinate check
MaxPoints == 2
\* the alerts one scraping method finds
MaxScraped == 3
\* the rows of the SNISB CSV
MaxDams == 2
\* the features of the edited file of heritage sites
MaxEdited == 2
\* the alerts of the most severe feed
MaxSevereAlerts == 3
\* the alerts one scraping run extracts for the municipalities of the boundary file
MaxCollected == 3

----------------------------------------------------------------------------
(* pandas / shapely values *)

NaN == "NaN"
Unknown == "Unknown"
isna(v) == v = NaN

Point(x) == [empty |-> FALSE, x |-> x]
NoGeometry == [empty |-> TRUE, x |-> 0]

Finite(d) == [inf |-> FALSE, mm |-> d]
Infinity == [inf |-> TRUE, mm |-> 0]

\* a numeric cell of a merged frame, null where the merge found no partner
Cell(v) == [null |-> FALSE, value |-> v]
NullCell == [null |-> TRUE, value |-> 0]

Abs(n) == IF n < 0 THEN -n ELSE n
Max(a, b) == IF a >= b THEN a ELSE b
Min(a, b) == IF a <= b THEN a ELSE b

\* s restricted to the positions in keep, order preserved
RECURSIVE SubSeqOf(_, _)
SubSeqOf(s, keep) ==
    IF s = <<>> THEN <<>>
    ELSE LET rest == SubSeqOf(Tail(s), {i - 1 : i \in keep \ {1}})
         IN IF 1 \in keep THEN <<Head(s)>> \o rest ELSE rest

RECURSIVE Flatten(_)
Flatten(ss) == IF ss = <<>> THEN <<>> ELSE Head(ss) \o Flatten(Tail(ss))

\* the positions of s whose element satisfies Test, ascending
Positions(s, Test(_)) == {i \in 1..Len(s) : Test(s[i])}

RECURSIVE SetToSeq(_)
SetToSeq(S) ==
    IF S = {} THEN <<>>
    ELSE LET m == CHOOSE x \in S : \A y \in S : x <= y
         IN <<m>> \o SetToSeq(S \ {m})

----------------------------------------------------------------------------
(* Geometry predicates of shapely on one parallel *)

\* point.within(polygon): the interior only
within(geom, poly) == ~geom.empty /\ poly.lo < geom.x /\ geom.x < poly.hi

\* polygon.distance(point)
polygon_distance(poly, geom) == Max(0, Max(poly.lo - geom.x, geom.x - poly.hi))

\* point.distance(point)
point_distance(p, q) == Abs(p.x - q.x)

----------------------------------------------------------------------------
(* Configuration tables of EnhancedHeritageRiskAssessment.__init__ *)

\* the table with 'Alto' as the top severity
risk_scores_get_alto_highest(level, default) ==
    CASE level = "Muito Alto" -> 5
      [] level = "Alto" -> 5
      [] level = "Moderado" -> 3
      [] level = "Baixo" -> 2
      [] level = "Muito Baixo" -> 1
      [] OTHER -> default

\* self.risk_scores.get(level, default)
risk_scores_get(level, default) ==
    CASE level = "Muito Alto" -> 5
      [] level = "Alto" -> 4
      [] level = "Moderado" -> 3
      [] level = "Baixo" -> 2
      [] level = "Muito Baixo" -> 1
      [] OTHER -> default

\* self.risk_weights.get(tipo, default), in tenths
risk_weights_get(tipo, default) ==
    CASE tipo = "Risco Hidrológico" -> 12
      [] tipo = "Risco Geológico" -> 15
      [] tipo = "Mov. Massa" -> 15
      [] tipo = "Risco Hidro" -> 12
      [] tipo = "Fire Risk" -> 13
      [] tipo = "Dam Proximity" -> 14
      [] OTHER -> default

\* the defaults passed to .get in _calculate_municipal_cemaden_risk
DefaultBaseScore == 2
DefaultWeightTenths == 10
\* min(risk_score / 2, 10), in hundredths
ScoreCeilingHundredths == 1000
\* dam_gdf.geometry.buffer(0.045), in thousandths of a degree
BufferMilliDegrees == 45
\* distances.min() * 111
KmPerDegree == 111
\* the buffer radius in mm: 0.045 degree at 111 km per degree
DamBufferRadius == BufferMilliDegrees * KmPerDegree * 1000
\* heritage_gdf.loc[idx, 'dam_risk_score'] = 3
DamRiskScore == 3
\* self.risk_scores.get(fire_level, 2)
DefaultFireScore == 2
\* the weights of _combine_all_risks, in tenths
CemadenWeightTenths == 4
DamWeightTenths == 3
FireWeightTenths == 3

----------------------------------------------------------------------------
(* Inputs of one run *)

\* municipality polygons: the first two overlap on (2000000, 4000000), the
\* third lies beyond a gap
BoundaryCatalog ==
    << [lo |-> -1000000, hi |-> 4000000, municipality |-> "Ouro Preto", uf |-> "MG"],
       [lo |-> 2000000, hi |-> 6000000, municipality |-> "Mariana", uf |-> "MG"],
       [lo |-> 8000000, hi |-> 9000000, municipality |-> "Paraty", uf |-> "RJ"] >>

SiteCatalog ==
    << Point(0), Point(3000000), Point(4999999), Point(5000001), Point(7000000),
       NoGeometry >>

DamCatalog == << Point(0), Point(6000000) >>

\* fire-risk polygons; 'high' is the label the INPE collector writes
FireCatalog ==
    << [lo |-> -500000, hi |-> 3500000, risk_level |-> "Alto"],
       [lo |-> 2500000, hi |-> 6000000, risk_level |-> "high"] >>

AlertCatalog ==
    << [municipio |-> "Ouro Preto", uf |-> "MG", tipo_alerta |-> "Risco Geológico", nivel |-> "Alto"],
       [municipio |-> "Ouro Preto", uf |-> "MG", tipo_alerta |-> "Risco Hidrológico", nivel |-> "Muito Alto"],
       [municipio |-> "Paraty", uf |-> "RJ", tipo_alerta |-> "Vendaval", nivel |-> "Observação"],
       [municipio |-> "Ouro Preto", uf |-> "SP", tipo_alerta |-> "Mov. Massa", nivel |-> "Muito Alto"] >>

\* every sub-sequence of cat with between lo and hi elements
SubSequences(cat, lo, hi) ==
    {SubSeqOf(cat, keep) : keep \in {k \in SUBSET (1..Len(cat)) :
                                        Cardinality(k) >= lo /\ Cardinality(k) <= hi}}

----------------------------------------------------------------------------
(* gpd.sjoin(left, right, how='left', predicate='within') *)

\* One output row per (left row, right feature) pair whose geometries
\* satisfy the predicate, and one row with a null index_right for a left row
\* with no such feature.  Every output row keeps the index label of its left
\* row.  A null index_right is written 0; right labels count from 1.
sjoin_matches(geom, right) == {j \in 1..Len(right) : within(geom, right[j])}

sjoin_left(left, right) ==
    Flatten([i \in 1..Len(left) |->
        LET m == SetToSeq(sjoin_matches(left[i].geometry, right))
        IN IF m = <<>> THEN << [left |-> left[i], index_right |-> 0] >>
           ELSE [k \in 1..Len(m) |-> [left |-> left[i], index_right |-> m[k]]]])

index_right_isna(j) == j = 0

\* frame.loc[idx]: the rows carrying index label idx
loc(frame, idx) == SubSeqOf(frame, {i \in 1..Len(frame) : frame[i].idx = idx})

----------------------------------------------------------------------------
(* _spatial_join_heritage_municipalities *)

\* the label of greatest distance, where the code takes the least
idxmax(distances) ==
    CHOOSE j \in 1..Len(distances) :
        /\ \A k \in 1..Len(distances) : distances[j] >= distances[k]
        /\ \A k \in 1..(j - 1) : distances[k] < distances[j]

\* distances.idxmin(): the first label of least distance
idxmin(distances) ==
    CHOOSE j \in 1..Len(distances) :
        /\ \A k \in 1..Len(distances) : distances[j] <= distances[k]
        /\ \A k \in 1..(j - 1) : distances[k] > distances[j]

\* the body of the loop over unmatched sites, for one site
nearest_municipality(point, bounds) ==
    IF point.empty
    THEN [municipality |-> NaN, uf |-> NaN]                    \* continue
    ELSE IF bounds = <<>>
    THEN [municipality |-> Unknown, uf |-> Unknown]            \* idxmin raises
    ELSE LET distances == [j \in 1..Len(bounds) |-> polygon_distance(bounds[j], point)]
             nearest_idx == idxmin(distances)
         IN [municipality |-> bounds[nearest_idx].municipality,
             uf |-> bounds[nearest_idx].uf]

spatial_join_heritage_municipalities(heritage_gdf, boundaries_gdf) ==
    LET left == [i \in 1..Len(heritage_gdf) |-> [idx |-> i, geometry |-> heritage_gdf[i]]]
        joined == sjoin_left(left, boundaries_gdf)
        admin(r) ==
            IF index_right_isna(r.index_right)
            THEN nearest_municipality(heritage_gdf[r.left.idx], boundaries_gdf)
            ELSE [municipality |-> boundaries_gdf[r.index_right].municipality,
                  uf |-> boundaries_gdf[r.index_right].uf]
    IN [k \in 1..Len(joined) |->
          [idx |-> joined[k].left.idx,
           geometry |-> joined[k].left.geometry,
           municipality |-> admin(joined[k]).municipality,
           uf |-> admin(joined[k]).uf]]

----------------------------------------------------------------------------
(* _calculate_municipal_cemaden_risk *)

\* base_score * weight of one alert, in tenths
alert_score(alert) ==
    risk_scores_get(alert.nivel, DefaultBaseScore)
        * risk_weights_get(alert.tipo_alerta, DefaultWeightTenths)

\* the loop with `=` for `+=`: the last alert alone is kept
accumulate_risk_score_overwrite(risk_score, group) ==
    IF group = <<>> THEN risk_score ELSE alert_score(group[Len(group)])

\* the inner loop: risk_score = 0; risk_score += base_score * weight
RECURSIVE accumulate_risk_score(_, _)
accumulate_risk_score(risk_score, group) ==
    IF group = <<>> THEN risk_score
    ELSE accumulate_risk_score(risk_score + alert_score(Head(group)), Tail(group))

\* the halving without the ceiling
normalize_risk_score_uncapped(risk_score) == risk_score * 5

\* the halving with the ceiling at 20
normalize_risk_score_ceiling_twenty(risk_score) ==
    Min(risk_score * 5, 2 * ScoreCeilingHundredths)

\* min(risk_score / 2, 10): tenths in, hundredths out
normalize_risk_score(risk_score) == Min(risk_score * 5, ScoreCeilingHundredths)

\* the keys of groupby(['municipio', 'uf']), each once, by first appearance
\* (pandas orders them alphabetically; nothing downstream reads the order)
RECURSIVE group_keys(_, _)
group_keys(df, seen) ==
    IF df = <<>> THEN <<>>
    ELSE LET key == <<Head(df).municipio, Head(df).uf>>
         IN IF key \in seen THEN group_keys(Tail(df), seen)
            ELSE <<key>> \o group_keys(Tail(df), seen \cup {key})

\* the rows of one group, in input order
group_of(df, key) ==
    SubSeqOf(df, {i \in 1..Len(df) : <<df[i].municipio, df[i].uf>> = key})

calculate_municipal_cemaden_risk(disaster_df) ==
    LET keys == group_keys(disaster_df, {})
    IN [g \in 1..Len(keys) |->
          LET group == group_of(disaster_df, keys[g])
          IN [municipality |-> keys[g][1],
              uf |-> keys[g][2],
              cemaden_risk_score |-> normalize_risk_score(accumulate_risk_score(0, group)),
              cemaden_alerts |-> Len(group)]]

----------------------------------------------------------------------------
(* IEEE-754 binary64, the arithmetic in which Python evaluates               *)
(* _calculate_municipal_cemaden_risk.  A positive double is                  *)
(* (hi * 2^27 + lo) * 2^(e - 52) with 2^25 <= hi < 2^26 and 0 <= lo < 2^27,  *)
(* a 53-bit significand in two limbs; zero has hi = 0.  Every operation      *)
(* rounds to nearest, ties to even.                                          *)

HiBase == 2^25
HiLimit == 2^26
LoBase == 2^27

Double(e, hi, lo) == [e |-> e, hi |-> hi, lo |-> lo]
DoubleZero == Double(0, 0, 0)

\* round up iff the discarded fraction rem/den exceeds one half, or equals
\* one half with an odd significand
round_to_nearest_even(e, hi, lo, rem, den) ==
    LET up == 2 * rem > den \/ (2 * rem = den /\ lo % 2 = 1)
    IN IF ~up THEN Double(e, hi, lo)
       ELSE IF lo + 1 < LoBase THEN Double(e, hi, lo + 1)
       ELSE IF hi + 1 < HiLimit THEN Double(e, hi + 1, 0)
       ELSE Double(e + 1, HiBase, 0)

\* n further quotient bits of r/q appended to acc, with the remainder left
RECURSIVE long_division(_, _, _, _)
long_division(r, q, n, acc) ==
    IF n = 0 THEN [quotient |-> acc, remainder |-> r]
    ELSE IF 2 * r >= q THEN long_division(2 * r - q, q, n - 1, 2 * acc + 1)
    ELSE long_division(2 * r, q, n - 1, 2 * acc)

\* the double nearest to p/q, for 1 <= p/q < 2: how Python reads the
\* literals 1.2, 1.5, 1.0 of risk_weights
double_of_ratio(p, q) ==
    LET high == long_division(p - q, q, 25, 1)
        low == long_division(high.remainder, q, 27, 0)
    IN round_to_nearest_even(0, high.quotient, low.quotient, low.remainder, q)

\* float(n) * w for a small positive integer n: the exact product, rounded
double_times_int(w, n) ==
    LET plo == w.lo * n
        phi == w.hi * n + plo \div LoBase
        low == plo % LoBase
        s == IF phi < HiLimit THEN 0
             ELSE IF phi < 2 * HiLimit THEN 1
             ELSE IF phi < 4 * HiLimit THEN 2
             ELSE 3
        den == 2^s
    IN round_to_nearest_even(w.e + s,
                             phi \div den,
                             (phi % den) * (LoBase \div den) + low \div den,
                             low % den,
                             den)

\* x + y for doubles whose exponents differ by less than 27
double_add(a, b) ==
    IF a.hi = 0 THEN b
    ELSE IF b.hi = 0 THEN a
    ELSE LET x == IF a.e >= b.e THEN a ELSE b
             y == IF a.e >= b.e THEN b ELSE a
             den == 2^(x.e - y.e)
             \* y aligned to the exponent of x; rem/den of a unit is cut off
             yhi == y.hi \div den
             ylo == (y.hi % den) * (LoBase \div den) + y.lo \div den
             rem == y.lo % den
             slo == x.lo + ylo
             shi == x.hi + yhi + slo \div LoBase
             low == slo % LoBase
         IN IF shi < HiLimit
            THEN round_to_nearest_even(x.e, shi, low, rem, den)
            ELSE round_to_nearest_even(x.e + 1,
                                       shi \div 2,
                                       (shi % 2) * (LoBase \div 2) + low \div 2,
                                       (low % 2) * den + rem,
                                       2 * den)

\* x / 2
double_halve(x) == IF x.hi = 0 THEN x ELSE Double(x.e - 1, x.hi, x.lo)

\* x < y for doubles that are zero or positive
double_less(x, y) ==
    IF x.hi = 0 THEN y.hi # 0
    ELSE IF y.hi = 0 THEN FALSE
    ELSE \/ x.e < y.e
         \/ x.e = y.e /\ x.hi < y.hi
         \/ x.e = y.e /\ x.hi = y.hi /\ x.lo < y.lo

\* float(n) for 1 <= n < 16
double_of_int(n) == double_times_int(double_of_ratio(1, 1), n)

\* base_score * weight
alert_score_double(alert) ==
    double_times_int(
        double_of_ratio(risk_weights_get(alert.tipo_alerta, DefaultWeightTenths), 10),
        risk_scores_get(alert.nivel, DefaultBaseScore))

\* risk_score = 0; risk_score += base_score * weight
RECURSIVE accumulate_risk_score_double(_, _)
accumulate_risk_score_double(risk_score, group) ==
    IF group = <<>> THEN risk_score
    ELSE accumulate_risk_score_double(
             double_add(risk_score, alert_score_double(Head(group))), Tail(group))

\* min(risk_score / 2, 10)
normalize_risk_score_double(risk_score) ==
    LET ceiling == double_of_int(ScoreCeilingHundredths \div 100)
        half == double_halve(risk_score)
    IN IF double_less(ceiling, half) THEN ceiling ELSE half

\* _calculate_municipal_cemaden_risk as Python evaluates it
calculate_municipal_cemaden_risk_double(disaster_df) ==
    LET keys == group_keys(disaster_df, {})
    IN [g \in 1..Len(keys) |->
          LET group == group_of(disaster_df, keys[g])
          IN [municipality |-> keys[g][1],
              uf |-> keys[g][2],
              cemaden_risk_score |->
                  normalize_risk_score_double(accumulate_risk_score_double(DoubleZero, group)),
              cemaden_alerts |-> Len(group)]]

----------------------------------------------------------------------------
(* _calculate_dam_proximity_risk *)

\* dam.buffer(0.045) as cut by the parallel
buffer(dam) == [lo |-> dam.x - DamBufferRadius, hi |-> dam.x + DamBufferRadius]

\* `not pd.isna(joined.loc[idx, 'index_right'])` raises ValueError when idx
\* labels more than one row of joined: .loc then yields a Series, and the
\* truth value of a Series is ambiguous
loc_is_series(joined, idx) ==
    Cardinality({k \in 1..Len(joined) : joined[k].left.idx = idx}) > 1

loop_raises(joined) == \E k \in 1..Len(joined) : loc_is_series(joined, joined[k].left.idx)

\* distances.min() * 111, in mm
nearest_dam(site_point, dam_gdf) ==
    LET distances == {point_distance(dam_gdf[j], site_point) : j \in 1..Len(dam_gdf)}
    IN Finite(CHOOSE d \in distances : \A e \in distances : d <= e)

with_dam_columns(r, score, dist) ==
    [idx |-> r.idx, geometry |-> r.geometry, municipality |-> r.municipality,
     uf |-> r.uf, dam_risk_score |-> score, nearest_dam_distance |-> dist]

calculate_dam_proximity_risk(heritage_gdf, dam_gdf) ==
    IF Len(dam_gdf) = 0
    THEN [raised |-> FALSE,
          frame |-> [k \in 1..Len(heritage_gdf) |->
                        with_dam_columns(heritage_gdf[k], 0, Infinity)]]
    ELSE LET dam_buffers == [j \in 1..Len(dam_gdf) |-> buffer(dam_gdf[j])]
             heritage_in_dam_zones == sjoin_left(heritage_gdf, dam_buffers)
             in_zone(idx) ==
                 \E k \in 1..Len(heritage_in_dam_zones) :
                     /\ heritage_in_dam_zones[k].left.idx = idx
                     /\ ~index_right_isna(heritage_in_dam_zones[k].index_right)
         IN IF loop_raises(heritage_in_dam_zones)
            THEN [raised |-> TRUE, frame |-> <<>>]
            ELSE [raised |-> FALSE,
                  frame |-> [k \in 1..Len(heritage_gdf) |->
                      IF in_zone(heritage_gdf[k].idx)
                      THEN with_dam_columns(heritage_gdf[k], DamRiskScore,
                                            nearest_dam(heritage_gdf[k].geometry, dam_gdf))
                      ELSE with_dam_columns(heritage_gdf[k], 0, Infinity)]]

----------------------------------------------------------------------------
(* _calculate_fire_risk *)

with_fire_column(r, score) ==
    [idx |-> r.idx, geometry |-> r.geometry, municipality |-> r.municipality,
     uf |-> r.uf, dam_risk_score |-> r.dam_risk_score,
     nearest_dam_distance |-> r.nearest_dam_distance, fire_risk_score |-> score]

\* one score for every fire-risk feature, where the code reads risk_level
fire_score_constant(fire_gdf, index_right) == DefaultFireScore

\* self.risk_scores.get(fire_level, 2) of the feature the row matched
fire_score(fire_gdf, index_right) ==
    risk_scores_get(fire_gdf[index_right].risk_level, DefaultFireScore)

calculate_fire_risk(heritage_gdf, fire_gdf) ==
    IF Len(fire_gdf) = 0
    THEN [raised |-> FALSE,
          frame |-> [k \in 1..Len(heritage_gdf) |-> with_fire_column(heritage_gdf[k], 0)]]
    ELSE LET heritage_with_fire == sjoin_left(heritage_gdf, fire_gdf)
             \* the only row of the join labelled idx, once the loop is known not to raise
             joined_row(idx) ==
                 heritage_with_fire[CHOOSE k \in 1..Len(heritage_with_fire) :
                                        heritage_with_fire[k].left.idx = idx]
         IN IF loop_raises(heritage_with_fire)
            THEN [raised |-> TRUE, frame |-> <<>>]
            ELSE [raised |-> FALSE,
                  frame |-> [k \in 1..Len(heritage_gdf) |->
                      LET j == joined_row(heritage_gdf[k].idx).index_right
                      IN IF index_right_isna(j)
                         THEN with_fire_column(heritage_gdf[k], 0)
                         ELSE with_fire_column(heritage_gdf[k], fire_score(fire_gdf, j))]]

----------------------------------------------------------------------------
(* _combine_all_risks and _categorize_risk_score *)

\* the buckets with their lower edges left out: `>` where the code has `>=`
categorize_risk_score_open_below(score) ==
    IF score > 8000 THEN "Muito Alto"
    ELSE IF score > 6000 THEN "Alto"
    ELSE IF score > 4000 THEN "Moderado"
    ELSE IF score > 2000 THEN "Baixo"
    ELSE "Muito Baixo"

\* the labels of the two middle buckets exchanged
categorize_risk_score_middle_exchanged(score) ==
    IF score >= 8000 THEN "Muito Alto"
    ELSE IF score >= 6000 THEN "Moderado"
    ELSE IF score >= 4000 THEN "Alto"
    ELSE IF score >= 2000 THEN "Baixo"
    ELSE "Muito Baixo"

\* score in thousandths
categorize_risk_score(score) ==
    IF score >= 8000 THEN "Muito Alto"
    ELSE IF score >= 6000 THEN "Alto"
    ELSE IF score >= 4000 THEN "Moderado"
    ELSE IF score >= 2000 THEN "Baixo"
    ELSE "Muito Baixo"

risk_colors(category) ==
    CASE category = "Muito Alto" -> "#8B0000"
      [] category = "Alto" -> "#FF0000"
      [] category = "Moderado" -> "#FFA500"
      [] category = "Baixo" -> "#FFFF00"
      [] category = "Muito Baixo" -> "#90EE90"
      [] OTHER -> NaN

\* the dam weight applied to the cemaden score and the cemaden weight to the dam score
comprehensive_risk_score_swapped(cemaden, dam, fire) ==
    cemaden * DamWeightTenths + dam * 100 * CemadenWeightTenths
        + fire * 100 * FireWeightTenths

\* cemaden * 0.4 + dam * 0.3 + fire * 0.3, the cemaden score in hundredths,
\* the other two in units, the result in thousandths
comprehensive_risk_score(cemaden, dam, fire) ==
    cemaden * CemadenWeightTenths + dam * 100 * DamWeightTenths
        + fire * 100 * FireWeightTenths

\* heritage_gdf.merge(municipal_cemaden_risk, on=['municipality', 'uf'], how='left'):
\* one output row per matching right row, one with nulls when none matches
merge_left(r, municipal_cemaden_risk) ==
    LET m == SetToSeq({g \in 1..Len(municipal_cemaden_risk) :
                         /\ municipal_cemaden_risk[g].municipality = r.municipality
                         /\ municipal_cemaden_risk[g].uf = r.uf})
    IN IF m = <<>>
       THEN << [left |-> r, cemaden_risk_score |-> NullCell, cemaden_alerts |-> NullCell] >>
       ELSE [k \in 1..Len(m) |->
               [left |-> r,
                cemaden_risk_score |-> Cell(municipal_cemaden_risk[m[k]].cemaden_risk_score),
                cemaden_alerts |-> Cell(municipal_cemaden_risk[m[k]].cemaden_alerts)]]

\* a null filled with 1 whatever the default asked for
fillna_with_one(cell, default) == IF cell.null THEN 1 ELSE cell.value

\* Series.fillna(default)
fillna(cell, default) == IF cell.null THEN default ELSE cell.value

combine_all_risks(heritage_gdf, municipal_cemaden_risk) ==
    LET merged == Flatten([k \in 1..Len(heritage_gdf) |->
                              merge_left(heritage_gdf[k], municipal_cemaden_risk)])
    IN [k \in 1..Len(merged) |->
          LET r == merged[k].left
              cemaden == fillna(merged[k].cemaden_risk_score, 0)
              total == comprehensive_risk_score(cemaden, r.dam_risk_score, r.fire_risk_score)
          IN [idx |-> k,
              geometry |-> r.geometry,
              municipality |-> r.municipality,
              uf |-> r.uf,
              dam_risk_score |-> r.dam_risk_score,
              nearest_dam_distance |-> r.nearest_dam_distance,
              fire_risk_score |-> r.fire_risk_score,
              cemaden_risk_score |-> cemaden,
              cemaden_alerts |-> fillna(merged[k].cemaden_alerts, 0),
              comprehensive_risk_score |-> total,
              comprehensive_risk_category |-> categorize_risk_score(total),
              risk_color |-> risk_colors(categorize_risk_score(total))]]

----------------------------------------------------------------------------
(* calculate_comprehensive_risk, step by step *)

\* The inputs as load_all_data hands them over.  run_comprehensive_assessment
\* reaches the method only with at least one heritage site and one alert
\* (_check_file_exists); the dam and fire frames may be empty, every file of
\* their directories being skipped when unreadable.
Init ==
    /\ pc = "join"
    /\ heritage \in SubSequences(SiteCatalog, 1, MaxSites)
    /\ boundaries \in SubSequences(BoundaryCatalog, 0, Len(BoundaryCatalog))
    /\ alerts \in SubSequences(AlertCatalog, 1, MaxAlerts)
    /\ dams \in SubSequences(DamCatalog, 0, Len(DamCatalog))
    /\ fires \in SubSequences(FireCatalog, 0, Len(FireCatalog))
    /\ rows = <<>>
    /\ municipal = <<>>
    /\ reordered = <<>>
    /\ batch_cut = 0
    /\ aggregates = <<>>
    /\ IdleElsewhere

\* Step 1: heritage_with_admin
SpatialJoin ==
    /\ pc = "join"
    /\ rows' = spatial_join_heritage_municipalities(heritage, boundaries)
    /\ pc' = "cemaden"
    /\ UNCHANGED <<inputs, municipal, aggregation, elsewhere>>

\* Step 2: municipal_cemaden_risk
MunicipalRisk ==
    /\ pc = "cemaden"
    /\ municipal' = calculate_municipal_cemaden_risk(alerts)
    /\ pc' = "dam"
    /\ UNCHANGED <<inputs, rows, aggregation, elsewhere>>

\* Step 3: heritage_with_dam_risk, or the exception leaves the method
DamProximity ==
    /\ pc = "dam"
    /\ LET out == calculate_dam_proximity_risk(rows, dams)
       IN IF out.raised
          THEN pc' = "dam_raised" /\ UNCHANGED rows
          ELSE pc' = "fire" /\ rows' = out.frame
    /\ UNCHANGED <<inputs, municipal, aggregation, elsewhere>>

\* Step 4: heritage_with_fire_risk, or the exception leaves the method
FireRisk ==
    /\ pc = "fire"
    /\ LET out == calculate_fire_risk(rows, fires)
       IN IF out.raised
          THEN pc' = "fire_raised" /\ UNCHANGED rows
          ELSE pc' = "combine" /\ rows' = out.frame
    /\ UNCHANGED <<inputs, municipal, aggregation, elsewhere>>

\* Step 5: final_risk_assessment
CombineRisks ==
    /\ pc = "combine"
    /\ rows' = combine_all_risks(rows, municipal)
    /\ pc' = "done"
    /\ UNCHANGED <<inputs, municipal, aggregation, elsewhere>>

Next ==
    \/ SpatialJoin
    \/ MunicipalRisk
    \/ DamProximity
    \/ FireRisk
    \/ CombineRisks

Spec == Init /\ [][Next]_vars

----------------------------------------------------------------------------
(* _calculate_municipal_cemaden_risk on its own: one pass over an alert     *)
(* list, then either a pass over the same records in another order or a    *)
(* pass over each of two batches of them                                   *)

\* alert records of two municipalities: recognised and unrecognised levels
\* and types
AggregatedAlertKinds ==
    { [municipio |-> "Petrópolis", uf |-> "RJ", tipo_alerta |-> "Risco Geológico", nivel |-> "Alto"],
      [municipio |-> "Petrópolis", uf |-> "RJ", tipo_alerta |-> "Risco Geológico", nivel |-> "Muito Alto"],
      [municipio |-> "Petrópolis", uf |-> "RJ", tipo_alerta |-> "Risco Hidrológico", nivel |-> "Muito Baixo"],
      [municipio |-> "Petrópolis", uf |-> "RJ", tipo_alerta |-> "Vendaval", nivel |-> "Muito Baixo"],
      [municipio |-> "Petrópolis", uf |-> "RJ", tipo_alerta |-> "Risco Hidrológico", nivel |-> "Observação"],
      [municipio |-> "Angra dos Reis", uf |-> "RJ", tipo_alerta |-> "Risco Geológico", nivel |-> "Alto"] }

\* the method's result, as a real number (hundredths) and as Python's float
aggregate(disaster_df) ==
    [exact |-> calculate_municipal_cemaden_risk(disaster_df),
     double |-> calculate_municipal_cemaden_risk_double(disaster_df)]

InitAggregator ==
    /\ pc = "one_pass"
    /\ alerts \in UNION {[1..n -> AggregatedAlertKinds] : n \in 1..MaxAggregatedAlerts}
    /\ heritage = <<>>
    /\ boundaries = <<>>
    /\ dams = <<>>
    /\ fires = <<>>
    /\ rows = <<>>
    /\ municipal = <<>>
    /\ reordered = <<>>
    /\ batch_cut = 0
    /\ aggregates = <<>>
    /\ IdleElsewhere

OnePass ==
    /\ pc = "one_pass"
    /\ aggregates' = [one_pass |-> aggregate(alerts)]
    /\ pc' = "compare"
    /\ UNCHANGED <<inputs, rows, municipal, reordered, batch_cut, elsewhere>>

ReorderedPass ==
    /\ pc = "compare"
    /\ \E p \in Permutations(1..Len(alerts)) :
          /\ reordered' = [i \in 1..Len(alerts) |-> alerts[p[i]]]
          /\ aggregates' = [one_pass |-> aggregates.one_pass,
                            reordered |-> aggregate(reordered')]
    /\ pc' = "reordered_done"
    /\ UNCHANGED <<inputs, rows, municipal, batch_cut, elsewhere>>

BatchPasses ==
    /\ pc = "compare"
    /\ \E cut \in 0..Len(alerts) :
          /\ batch_cut' = cut
          /\ aggregates' = [one_pass |-> aggregates.one_pass,
                            first_batch |-> aggregate(SubSeq(alerts, 1, cut)),
                            second_batch |-> aggregate(SubSeq(alerts, cut + 1, Len(alerts)))]
    /\ pc' = "batches_done"
    /\ UNCHANGED <<inputs, rows, municipal, reordered, elsewhere>>

NextAggregator ==
    \/ OnePass
    \/ ReorderedPass
    \/ BatchPasses

SpecAggregator == InitAggregator /\ [][NextAggregator]_vars

----------------------------------------------------------------------------
(* Properties of the municipal aggregation *)

Aggregated == pc \in {"compare", "reordered_done", "batches_done"}

KeysOf(df) == {<<df[i].municipio, df[i].uf>> : i \in 1..Len(df)}
EntriesOf(table, key) ==
    {g \in 1..Len(table) : <<table[g].municipality, table[g].uf>> = key}
\* the score and the alert count a result table gives a key
ScoreOf(table, key) == table[CHOOSE g \in EntriesOf(table, key) : TRUE].cemaden_risk_score
CountOf(table, key) ==
    IF EntriesOf(table, key) = {} THEN 0
    ELSE table[CHOOSE g \in EntriesOf(table, key) : TRUE].cemaden_alerts

IsGeologicalAlto(alert) == alert.tipo_alerta = "Risco Geológico" /\ alert.nivel = "Alto"

\* C1 as stated: one 'Risco Geológico' / 'Alto' record for (X, Y) yields
\* cemaden_risk_score 3.75 for (X, Y).
C1_SingleAlertScores375 ==
    (Aggregated /\ Len(alerts) = 1 /\ IsGeologicalAlto(alerts[1])) =>
        ScoreOf(aggregates.one_pass.exact, <<alerts[1].municipio, alerts[1].uf>>) = 375

\* C1 amended: that record yields cemaden_risk_score 3.0 = min(4 * 1.5 / 2, 10)
\* for (X, Y), 'Alto' being severity 4 ('Muito Alto' is 5); the float the
\* program returns is exactly 3.0.
C1_SingleAlertScores300 ==
    (Aggregated /\ Len(alerts) = 1 /\ IsGeologicalAlto(alerts[1])) =>
        LET key == <<alerts[1].municipio, alerts[1].uf>>
        IN /\ Len(aggregates.one_pass.exact) = 1
           /\ ScoreOf(aggregates.one_pass.exact, key) = 300
           /\ ScoreOf(aggregates.one_pass.double, key) = Double(1, 3 * 2^24, 0)

C1_Witness ==
    /\ pc = "compare"
    /\ Len(alerts) = 1
    /\ IsGeologicalAlto(alerts[1])
    /\ aggregates.one_pass.exact[1].cemaden_risk_score = 300

\* severity and weight (in tenths) as the claim words them
ClaimedSeverity(nivel) ==
    CASE nivel = "Muito Alto" -> 5
      [] nivel = "Alto" -> 4
      [] nivel = "Moderado" -> 3
      [] nivel = "Baixo" -> 2
      [] nivel = "Muito Baixo" -> 1
      [] OTHER -> 2

ClaimedWeight(tipo) ==
    CASE tipo \in {"Risco Geológico", "Mov. Massa"} -> 15
      [] tipo \in {"Risco Hidrológico", "Risco Hidro"} -> 12
      [] tipo = "Fire Risk" -> 13
      [] tipo = "Dam Proximity" -> 14
      [] OTHER -> 10

\* the sum over the records of df with the given key, in tenths
RECURSIVE ClaimedSum(_, _)
ClaimedSum(df, key) ==
    IF df = <<>> THEN 0
    ELSE (IF <<Head(df).municipio, Head(df).uf>> = key
          THEN ClaimedSeverity(Head(df).nivel) * ClaimedWeight(Head(df).tipo_alerta)
          ELSE 0) + ClaimedSum(Tail(df), key)

\* C2: for every (municipio, uf) group the score is min(sum of severity *
\* weight / 2, 10), an unrecognised nivel counting 2 and an unrecognised
\* tipo_alerta 1.0; it never exceeds 10; cemaden_alerts is the number of
\* records of the group; and there is one result row per group.
C2_HalvedSumCappedAtTen ==
    Aggregated =>
        LET table == aggregates.one_pass.exact
            floats == aggregates.one_pass.double
        IN /\ Len(table) = Cardinality(KeysOf(alerts))
           /\ \A key \in KeysOf(alerts) :
                 /\ Cardinality(EntriesOf(table, key)) = 1
                 /\ ScoreOf(table, key) =
                        IF ClaimedSum(alerts, key) * 5 <= 1000
                        THEN ClaimedSum(alerts, key) * 5 ELSE 1000
                 /\ ScoreOf(table, key) <= 1000
                 /\ ~double_less(double_of_int(10), ScoreOf(floats, key))
                 /\ CountOf(table, key) =
                        Cardinality({i \in 1..Len(alerts) :
                                        <<alerts[i].municipio, alerts[i].uf>> = key})
                 /\ CountOf(floats, key) = CountOf(table, key)

\* a municipality whose three alerts sum past the ceiling
C2_Witness ==
    /\ pc = "compare"
    /\ \E key \in KeysOf(alerts) :
          /\ ClaimedSum(alerts, key) * 5 > 1000
          /\ ScoreOf(aggregates.one_pass.exact, key) = 1000
          /\ CountOf(aggregates.one_pass.exact, key) = 3

----------------------------------------------------------------------------
(* Reordering and batching *)

\* Per-batch results merged key by key: the alert counts are added, the
\* scores are added and the ceiling of 10 is applied again.  The merge is
\* the specification's (sections 4.2 and 8); the method itself has none.
merge_scores(a, b) == Min(a + b, ScoreCeilingHundredths)

merge_scores_double(a, b) ==
    LET sum == double_add(a, b)
        ceiling == double_of_int(ScoreCeilingHundredths \div 100)
    IN IF double_less(ceiling, sum) THEN ceiling ELSE sum

ExactOrZero(table, key) == IF EntriesOf(table, key) = {} THEN 0 ELSE ScoreOf(table, key)
DoubleOrZero(table, key) ==
    IF EntriesOf(table, key) = {} THEN DoubleZero ELSE ScoreOf(table, key)

MergedExact(key) ==
    merge_scores(ExactOrZero(aggregates.first_batch.exact, key),
                 ExactOrZero(aggregates.second_batch.exact, key))
MergedDouble(key) ==
    merge_scores_double(DoubleOrZero(aggregates.first_batch.double, key),
                        DoubleOrZero(aggregates.second_batch.double, key))
MergedCount(key) ==
    CountOf(aggregates.first_batch.exact, key) + CountOf(aggregates.second_batch.exact, key)

\* a double between 1/2 and 16 as a multiple of 2^-53, in two limbs
UnitsOf(x) ==
    IF x.hi = 0 THEN [high |-> 0, low |-> 0]
    ELSE [high |-> x.hi * 2^(x.e + 1) + (x.lo * 2^(x.e + 1)) \div LoBase,
          low |-> (x.lo * 2^(x.e + 1)) % LoBase]

\* |x - y| <= k * 2^-53
WithinUnits(x, y, k) ==
    LET dh == UnitsOf(x).high - UnitsOf(y).high
        dl == UnitsOf(x).low - UnitsOf(y).low
    IN /\ Abs(dh) <= 1
       /\ Abs(dh * LoBase + dl) <= k

\* C3 as stated: for a fixed key the score and the alert count the program
\* returns are the same after reordering the records, and the same when the
\* records are split into batches and the per-batch results merged.
C3_SameScoreInAnyOrder ==
    /\ pc = "reordered_done" =>
          \A key \in KeysOf(alerts) :
              /\ ScoreOf(aggregates.reordered.double, key)
                     = ScoreOf(aggregates.one_pass.double, key)
              /\ CountOf(aggregates.reordered.double, key)
                     = CountOf(aggregates.one_pass.double, key)
    /\ pc = "batches_done" =>
          \A key \in KeysOf(alerts) :
              /\ MergedDouble(key) = ScoreOf(aggregates.one_pass.double, key)
              /\ MergedCount(key) = CountOf(aggregates.one_pass.double, key)

\* C3 amended: for a fixed key the alert count is the same after reordering
\* and after splitting into batches (counts added); the score is the same as
\* a real number (per-batch scores added and capped at 10 again); the float
\* the program returns agrees only up to rounding, within 10^-13 (900 units
\* of 2^-53).
C3_SameScoreUpToRounding ==
    /\ pc = "reordered_done" =>
          \A key \in KeysOf(alerts) :
              /\ ScoreOf(aggregates.reordered.exact, key)
                     = ScoreOf(aggregates.one_pass.exact, key)
              /\ CountOf(aggregates.reordered.exact, key)
                     = CountOf(aggregates.one_pass.exact, key)
              /\ CountOf(aggregates.reordered.double, key)
                     = CountOf(aggregates.one_pass.double, key)
              /\ WithinUnits(ScoreOf(aggregates.reordered.double, key),
                             ScoreOf(aggregates.one_pass.double, key), 900)
    /\ pc = "batches_done" =>
          \A key \in KeysOf(alerts) :
              /\ MergedExact(key) = ScoreOf(aggregates.one_pass.exact, key)
              /\ MergedCount(key) = CountOf(aggregates.one_pass.exact, key)
              /\ WithinUnits(MergedDouble(key),
                             ScoreOf(aggregates.one_pass.double, key), 900)

\* three records of one municipality aggregated in an order that changes the
\* float but not the real number
C3_Witness ==
    /\ pc = "reordered_done"
    /\ reordered # alerts
    /\ \E key \in KeysOf(alerts) :
          /\ CountOf(aggregates.one_pass.exact, key) = 3
          /\ ScoreOf(aggregates.reordered.exact, key) = ScoreOf(aggregates.one_pass.exact, key)
          /\ ScoreOf(aggregates.reordered.double, key) # ScoreOf(aggregates.one_pass.double, key)

----------------------------------------------------------------------------
(* Properties of the spatial join *)

JoinDone == pc # "join"
\* the states in which rows still carry the index labels of the input sites
Labelled == pc \in {"cemaden", "dam", "fire", "combine", "dam_raised", "fire_raised"}
DamDone == pc \in {"fire", "combine", "done", "fire_raised"}
FireDone == pc \in {"combine", "done"}

Containing(geom) == {j \in 1..Len(boundaries) : within(geom, boundaries[j])}
AdminOf(r) == <<r.municipality, r.uf>>
AdminOfBoundary(j) == <<boundaries[j].municipality, boundaries[j].uf>>

\* C4: the frame returned by calculate_comprehensive_risk has exactly as
\* many rows as the input heritage collection, whatever the boundaries.
C4_RowCountPreserved == pc = "done" => Len(rows) = Len(heritage)

\* C5: a site strictly inside exactly one boundary polygon is assigned the
\* municipality and uf of that polygon, and a site inside no polygon those
\* of a boundary at minimum distance from it.
C5_ContainingOrNearest ==
    Labelled =>
        \A i \in 1..Len(heritage) :
            LET site == heritage[i]
                mine == loc(rows, i)
            IN /\ Cardinality(Containing(site)) = 1 =>
                     /\ Len(mine) = 1
                     /\ \A j \in Containing(site) : AdminOf(mine[1]) = AdminOfBoundary(j)
               /\ (~site.empty /\ Containing(site) = {} /\ boundaries # <<>>) =>
                     /\ Len(mine) = 1
                     /\ \E j \in 1..Len(boundaries) :
                           /\ AdminOf(mine[1]) = AdminOfBoundary(j)
                           /\ \A k \in 1..Len(boundaries) :
                                 polygon_distance(boundaries[j], site)
                                     <= polygon_distance(boundaries[k], site)

\* a gap site whose nearest boundary is not the first one, next to a site
\* inside exactly one polygon
C5_Witness ==
    /\ pc = "cemaden"
    /\ \E i \in 1..Len(heritage) :
          /\ ~heritage[i].empty /\ Containing(heritage[i]) = {}
          /\ Len(boundaries) >= 2
          /\ polygon_distance(boundaries[2], heritage[i])
                 < polygon_distance(boundaries[1], heritage[i])
          /\ AdminOf(loc(rows, i)[1]) = AdminOfBoundary(2)
    /\ \E i \in 1..Len(heritage) :
          /\ Cardinality(Containing(heritage[i])) = 1
          /\ \A j \in Containing(heritage[i]) : AdminOf(loc(rows, i)[1]) = AdminOfBoundary(j)

\* C6: after the join every row carries the municipality of a boundary or
\* the 'Unknown' sentinel, never a null municipality.
C6_NeverNullMunicipality ==
    JoinDone =>
        \A k \in 1..Len(rows) : ~isna(rows[k].municipality) /\ ~isna(rows[k].uf)

----------------------------------------------------------------------------
(* Properties of the proximity steps *)

InBuffers(geom) == {j \in 1..Len(dams) : within(geom, buffer(dams[j]))}
InFires(geom) == {j \in 1..Len(fires) : within(geom, fires[j])}
UniqueLabels == \A k \in 1..Len(rows) : Len(loc(rows, rows[k].idx)) = 1

\* C7: for any set of dam features, overlapping buffers included,
\* _calculate_dam_proximity_risk completes without error on a frame with one
\* row per site and scores a site 3 inside at least one buffer, 0 otherwise.
C7_DamScoreOrZero ==
    /\ (pc = "dam_raised" => ~UniqueLabels)
    /\ DamDone =>
          \A k \in 1..Len(rows) :
              rows[k].dam_risk_score =
                  IF InBuffers(rows[k].geometry) # {} THEN DamRiskScore ELSE 0

\* C8 as stated: one nonzero score for every site inside a fire-risk
\* feature, whatever the feature's risk_level, and 0 for every other site.
C8_OneConstantScore ==
    FireDone =>
        /\ \A k \in 1..Len(rows) :
              InFires(rows[k].geometry) = {} <=> rows[k].fire_risk_score = 0
        /\ \A k, m \in 1..Len(rows) :
              (InFires(rows[k].geometry) # {} /\ InFires(rows[m].geometry) # {})
                  => rows[k].fire_risk_score = rows[m].fire_risk_score

\* C8 amended: a site inside no fire-risk feature scores 0; a site inside
\* exactly one scores the severity of that feature's risk_level (5 to 1 for
\* 'Muito Alto' to 'Muito Baixo', 2 for any other label), whatever the
\* distance; and the step returns only if no site lies inside two features,
\* raising otherwise.
C8_ScoreByRiskLevel ==
    /\ FireDone =>
          \A k \in 1..Len(rows) :
              LET in == InFires(rows[k].geometry)
              IN /\ Cardinality(in) <= 1
                 /\ in = {} => rows[k].fire_risk_score = 0
                 /\ \A j \in in :
                       rows[k].fire_risk_score =
                           CASE fires[j].risk_level = "Muito Alto" -> 5
                             [] fires[j].risk_level = "Alto" -> 4
                             [] fires[j].risk_level = "Moderado" -> 3
                             [] fires[j].risk_level = "Baixo" -> 2
                             [] fires[j].risk_level = "Muito Baixo" -> 1
                             [] OTHER -> 2
    /\ pc = "fire_raised" =>
          \/ ~UniqueLabels
          \/ \E k \in 1..Len(rows) : Cardinality(InFires(rows[k].geometry)) >= 2

\* two sites of one run, each inside one fire-risk feature, scored differently
C8_Witness ==
    /\ pc = "combine"
    /\ \E k, m \in 1..Len(rows) :
          /\ Cardinality(InFires(rows[k].geometry)) = 1
          /\ Cardinality(InFires(rows[m].geometry)) = 1
          /\ rows[k].fire_risk_score = 4
          /\ rows[m].fire_risk_score = 2

\* C9: with a single dam point, a site 5.000001 km from the dam scores 0 and
\* a site 4.999999 km from it scores 3 (distances at 111 km per degree, in mm).
C9_FiveKilometreBoundary ==
    (DamDone /\ Len(dams) = 1) =>
        \A k \in 1..Len(rows) :
            ~rows[k].geometry.empty =>
                /\ point_distance(dams[1], rows[k].geometry) = 5000001
                      => rows[k].dam_risk_score = 0
                /\ point_distance(dams[1], rows[k].geometry) = 4999999
                      => rows[k].dam_risk_score = DamRiskScore

----------------------------------------------------------------------------
(* Properties of the composite score *)

\* C10: comprehensive_risk_score = 0.4 * cemaden_risk_score
\* + 0.3 * dam_risk_score + 0.3 * fire_risk_score for every site (in
\* thousandths, the cemaden score being in hundredths), and the three
\* weights add up to 1.0.
C10_WeightedSum ==
    /\ CemadenWeightTenths + DamWeightTenths + FireWeightTenths = 10
    /\ pc = "done" =>
          \A k \in 1..Len(rows) :
              rows[k].comprehensive_risk_score =
                  4 * rows[k].cemaden_risk_score + 300 * rows[k].dam_risk_score
                      + 300 * rows[k].fire_risk_score

\* a scored site with all three components nonzero
C10_Witness ==
    /\ pc = "done"
    /\ \E k \in 1..Len(rows) :
          /\ rows[k].cemaden_risk_score > 0
          /\ rows[k].dam_risk_score > 0
          /\ rows[k].fire_risk_score > 0
          /\ rows[k].comprehensive_risk_score > 0

\* the alert records of the municipality a row was assigned to
AlertsOf(r) ==
    {i \in 1..Len(alerts) : alerts[i].municipio = r.municipality /\ alerts[i].uf = r.uf}

\* C13: a site whose (municipality, uf) has no alert record gets
\* cemaden_risk_score 0 and cemaden_alerts 0; with no dam feature every site
\* gets dam_risk_score 0 and with no fire feature fire_risk_score 0; a site
\* whose three scores are 0 gets comprehensive_risk_score 0 and category
\* 'Muito Baixo'; and the combination returns for every frame it is handed.
C13_MissingScoresAreZero ==
    /\ [][pc = "combine" => pc' = "done"]_vars
    /\ [](pc = "done" =>
          \A k \in 1..Len(rows) :
              /\ AlertsOf(rows[k]) = {} =>
                    rows[k].cemaden_risk_score = 0 /\ rows[k].cemaden_alerts = 0
              /\ dams = <<>> => rows[k].dam_risk_score = 0
              /\ fires = <<>> => rows[k].fire_risk_score = 0
              /\ (rows[k].cemaden_risk_score = 0 /\ rows[k].dam_risk_score = 0
                    /\ rows[k].fire_risk_score = 0) =>
                    /\ rows[k].comprehensive_risk_score = 0
                    /\ rows[k].comprehensive_risk_category = "Muito Baixo")

\* a site of a municipality without alerts, outside every buffer and fire
\* feature, next to a site with alerts
C13_Witness ==
    /\ pc = "done"
    /\ \E k \in 1..Len(rows) :
          /\ AlertsOf(rows[k]) = {}
          /\ ~isna(rows[k].municipality)
          /\ rows[k].municipality # Unknown
          /\ dams # <<>>
          /\ fires # <<>>
          /\ rows[k].cemaden_alerts = 0
          /\ rows[k].comprehensive_risk_score = 0
          /\ rows[k].comprehensive_risk_category = "Muito Baixo"
    /\ \E k \in 1..Len(rows) : rows[k].cemaden_alerts > 0

----------------------------------------------------------------------------
(* _categorize_risk_score on its own: the categorisation and colouring of   *)
(* _combine_all_risks applied to a column of two scores                      *)

\* the lower edges of the buckets and the ends of the scale, in thousandths
BucketEdges == {0, 2000, 4000, 6000, 8000, 10000}

\* scores on and around every edge
ScoreSamples == {edge + d : edge \in BucketEdges, d \in -MaxScoreMargin..MaxScoreMargin}

InitCategorizer ==
    /\ pc = "categorize"
    /\ scores \in [1..2 -> ScoreSamples]
    /\ categories = <<>>
    /\ IdleBesideCategorizer

\* comprehensive_risk_score.apply(self._categorize_risk_score), then
\* comprehensive_risk_category.map(risk_colors)
Categorize ==
    /\ pc = "categorize"
    /\ categories' = [i \in 1..Len(scores) |->
                        [comprehensive_risk_category |-> categorize_risk_score(scores[i]),
                         risk_color |-> risk_colors(categorize_risk_score(scores[i]))]]
    /\ pc' = "categorized"
    /\ UNCHANGED <<scores, beside_categorizer>>

NextCategorizer == Categorize

SpecCategorizer == InitCategorizer /\ [][NextCategorizer]_vars

----------------------------------------------------------------------------
(* Properties of the categorisation *)

Labels == {"Muito Alto", "Alto", "Moderado", "Baixo", "Muito Baixo"}

CategoryRank(label) ==
    CASE label = "Muito Baixo" -> 1
      [] label = "Baixo" -> 2
      [] label = "Moderado" -> 3
      [] label = "Alto" -> 4
      [] label = "Muito Alto" -> 5

\* C11: every score gets exactly one of the five labels, by closed-open
\* buckets: score >= 8 'Muito Alto', 6 <= score < 8 'Alto', 4 <= score < 6
\* 'Moderado', 2 <= score < 4 'Baixo', score < 2 'Muito Baixo' (scores in
\* thousandths); 2, 4, 6 and 8 fall in the higher bucket; and every label has
\* a colour in risk_colors.
C11_ClosedOpenBuckets ==
    pc = "categorized" =>
        \A i \in 1..Len(scores) :
            LET score == scores[i]
                label == categories[i].comprehensive_risk_category
            IN /\ label \in Labels
               /\ label = "Muito Alto" <=> score >= 8000
               /\ label = "Alto" <=> (6000 <= score /\ score < 8000)
               /\ label = "Moderado" <=> (4000 <= score /\ score < 6000)
               /\ label = "Baixo" <=> (2000 <= score /\ score < 4000)
               /\ label = "Muito Baixo" <=> score < 2000
               /\ ~isna(categories[i].risk_color)
               /\ \A other \in Labels \ {label} :
                     risk_colors(other) # categories[i].risk_color

\* a score on an edge next to a score just below it
C11_Witness ==
    /\ pc = "categorized"
    /\ scores[1] = 1999 /\ categories[1].comprehensive_risk_category = "Muito Baixo"
    /\ scores[2] = 2000 /\ categories[2].comprehensive_risk_category = "Baixo"

\* C12: for two scores a <= b the rank of the category of a (Muito Baixo <
\* Baixo < Moderado < Alto < Muito Alto) is not greater than that of b.
C12_MonotonicBuckets ==
    (pc = "categorized" /\ scores[1] <= scores[2]) =>
        CategoryRank(categories[1].comprehensive_risk_category)
            <= CategoryRank(categories[2].comprehensive_risk_category)

\* two scores in different buckets, the greater in the higher bucket
C12_Witness ==
    /\ pc = "categorized"
    /\ scores[1] < scores[2]
    /\ CategoryRank(categories[1].comprehensive_risk_category) = 3
    /\ CategoryRank(categories[2].comprehensive_risk_category) = 4

----------------------------------------------------------------------------
(* The files run_comprehensive_assessment reads *)

\* a JSON or GeoJSON file: missing, unreadable, or holding records
Absent == [exists |-> FALSE, readable |-> FALSE, records |-> <<>>]
Corrupt == [exists |-> TRUE, readable |-> FALSE, records |-> <<>>]
Holding(records) == [exists |-> TRUE, readable |-> TRUE, records |-> records]

\* a directory and the .geojson files os.listdir finds in it
NoDirectory == [exists |-> FALSE, listing |-> <<>>]
Directory(listing) == [exists |-> TRUE, listing |-> listing]

\* real_time_cemaden_data.json
CemadenFiles ==
    { Absent, Corrupt, Holding(<<>>),
      Holding(<<AlertCatalog[1]>>),
      Holding(<<AlertCatalog[1], AlertCatalog[3]>>) }

\* iphan_heritage_sites.geojson
IphanFiles ==
    { Absent, Corrupt, Holding(<<>>),
      Holding(<<Point(0)>>),
      Holding(<<Point(3000000), Point(7000000)>>),
      Holding(<<NoGeometry, Point(5000001)>>) }

\* snisb_data/GeoJSON
SnisbDirectories ==
    { NoDirectory, Directory(<<>>),
      Directory(<<Corrupt>>),
      Directory(<<Holding(<<>>)>>),
      Directory(<<Holding(<<DamCatalog[1]>>)>>),
      Directory(<<Corrupt, Holding(DamCatalog)>>) }

\* inpe_data/geojson
InpeDirectories ==
    { NoDirectory, Directory(<<>>),
      Directory(<<Corrupt>>),
      Directory(<<Holding(<<FireCatalog[1]>>)>>),
      Directory(<<Holding(<<FireCatalog[1]>>), Holding(<<FireCatalog[2]>>)>>) }

\* ibge_boundaries: municipalities.geojson and the shapefile under temp/
IbgeDirectories ==
    { [geojson |-> Holding(BoundaryCatalog), shapefile |-> Absent],
      [geojson |-> Corrupt, shapefile |-> Absent],
      [geojson |-> Absent, shapefile |-> Holding(SubSeq(BoundaryCatalog, 1, 1))],
      [geojson |-> Absent, shapefile |-> Corrupt],
      [geojson |-> Absent, shapefile |-> Absent] }

----------------------------------------------------------------------------
(* check_all_data_sources, download_ibge_boundaries, load_all_data *)

\* _check_file_exists: the file exists, can be read and holds a record
check_file_exists(file) == file.exists /\ file.readable /\ Len(file.records) > 0

\* the SNISB and INPE checks: the directory exists and lists a .geojson file
check_directory(dir) == dir.exists /\ Len(dir.listing) > 0

check_all_data_sources(project_data) ==
    [cemaden |-> check_file_exists(project_data.cemaden),
     iphan |-> check_file_exists(project_data.iphan),
     snisb |-> check_directory(project_data.snisb),
     inpe |-> check_directory(project_data.inpe)]

\* the keys of the status dictionary in insertion order
SourceNames == <<"cemaden", "iphan", "snisb", "inpe">>

\* [source for source, available in data_status.items() if not available]
missing_sources(status) ==
    SubSeqOf(SourceNames, {i \in 1..Len(SourceNames) : ~status[SourceNames[i]]})

\* load_snisb_dam_data / load_inpe_fire_data: the features of every file that
\* can be read, concatenated; an unreadable file is skipped
load_directory(dir) ==
    Flatten([i \in 1..Len(dir.listing) |->
                IF dir.listing[i].readable THEN dir.listing[i].records ELSE <<>>])

\* download_ibge_boundaries: TRUE with municipalities.geojson in place, which
\* is written from the shapefile when missing
download_ibge_boundaries(ibge) ==
    IF ibge.geojson.exists THEN [ok |-> TRUE, ibge |-> ibge]
    ELSE IF ~ibge.shapefile.exists \/ ~ibge.shapefile.readable
    THEN [ok |-> FALSE, ibge |-> ibge]
    ELSE [ok |-> TRUE,
          ibge |-> [geojson |-> Holding(ibge.shapefile.records),
                    shapefile |-> ibge.shapefile]]

----------------------------------------------------------------------------
(* GeoDataFrame.to_file(driver='GeoJSON') and gpd.read_file *)

\* a JSON value: a number in decimal digits, a string, null, or a property
\* the writer left out of the feature
RECURSIVE decimal_digits(_)
decimal_digits(n) ==
    IF n < 10 THEN <<n>> ELSE Append(decimal_digits(n \div 10), n % 10)

RECURSIVE decimal_value(_)
decimal_value(digits) ==
    IF digits = <<>> THEN 0
    ELSE decimal_value(SubSeq(digits, 1, Len(digits) - 1)) * 10 + digits[Len(digits)]

json_number(n) ==
    [kind |-> "number", negative |-> n < 0, digits |-> decimal_digits(Abs(n)), text |-> ""]
json_string(text) == [kind |-> "string", negative |-> FALSE, digits |-> <<>>, text |-> text]
json_null == [kind |-> "null", negative |-> FALSE, digits |-> <<>>, text |-> ""]
json_skipped == [kind |-> "skipped", negative |-> FALSE, digits |-> <<>>, text |-> ""]

\* a string column: a missing value is written as null
json_of_text(value) == IF isna(value) THEN json_null ELSE json_string(value)

\* a float column that may hold np.inf: the GeoJSON writer leaves a value
\* that is not finite out of the feature, JSON having no token for it
json_of_distance(distance) ==
    IF distance.inf THEN json_skipped ELSE json_number(distance.mm)

json_of_geometry(geometry) ==
    IF geometry.empty THEN json_null ELSE json_number(geometry.x)

\* heritage_final.to_file(path, driver='GeoJSON'): one feature per row, the
\* index left out
to_file(frame) ==
    [k \in 1..Len(frame) |->
        [geometry |-> json_of_geometry(frame[k].geometry),
         municipality |-> json_of_text(frame[k].municipality),
         uf |-> json_of_text(frame[k].uf),
         dam_risk_score |-> json_number(frame[k].dam_risk_score),
         nearest_dam_distance |-> json_of_distance(frame[k].nearest_dam_distance),
         fire_risk_score |-> json_number(frame[k].fire_risk_score),
         cemaden_risk_score |-> json_number(frame[k].cemaden_risk_score),
         cemaden_alerts |-> json_number(frame[k].cemaden_alerts),
         comprehensive_risk_score |-> json_number(frame[k].comprehensive_risk_score),
         comprehensive_risk_category |-> json_of_text(frame[k].comprehensive_risk_category),
         risk_color |-> json_of_text(frame[k].risk_color)]]

number_of_json(value) ==
    IF value.kind = "number"
    THEN Cell(IF value.negative THEN -decimal_value(value.digits)
              ELSE decimal_value(value.digits))
    ELSE NullCell

text_of_json(value) == IF value.kind = "string" THEN value.text ELSE NaN

\* a float cell of the frame read: null, infinite or a number
ReadDistance(null, inf, mm) == [null |-> null, inf |-> inf, mm |-> mm]

distance_of_json(value) ==
    IF value.kind # "number" THEN ReadDistance(TRUE, FALSE, 0)
    ELSE ReadDistance(FALSE, FALSE, number_of_json(value).value)

geometry_of_json(value) ==
    IF value.kind = "number" THEN Point(number_of_json(value).value) ELSE NoGeometry

\* gpd.read_file(path): a property missing from a feature reads as null
read_file(features) ==
    [k \in 1..Len(features) |->
        [geometry |-> geometry_of_json(features[k].geometry),
         municipality |-> text_of_json(features[k].municipality),
         uf |-> text_of_json(features[k].uf),
         dam_risk_score |-> number_of_json(features[k].dam_risk_score),
         nearest_dam_distance |-> distance_of_json(features[k].nearest_dam_distance),
         fire_risk_score |-> number_of_json(features[k].fire_risk_score),
         cemaden_risk_score |-> number_of_json(features[k].cemaden_risk_score),
         cemaden_alerts |-> number_of_json(features[k].cemaden_alerts),
         comprehensive_risk_score |-> number_of_json(features[k].comprehensive_risk_score),
         comprehensive_risk_category |-> text_of_json(features[k].comprehensive_risk_category),
         risk_color |-> text_of_json(features[k].risk_color)]]

\* the files save_comprehensive_results writes
ResultFiles ==
    { "comprehensive_heritage_risk_<timestamp>.geojson",
      "comprehensive_heritage_risk.geojson",
      "comprehensive_analysis_<timestamp>.json",
      "comprehensive_analysis.json",
      "comprehensive_heritage_risk.csv" }

----------------------------------------------------------------------------
(* run_comprehensive_assessment, step by step; its step 4 is                *)
(* calculate_comprehensive_risk, the actions SpatialJoin to CombineRisks     *)

InitAssessment ==
    /\ pc = "check_sources"
    /\ files \in [cemaden : CemadenFiles, iphan : IphanFiles, snisb : SnisbDirectories,
                  inpe : InpeDirectories, ibge : IbgeDirectories]
    /\ data_status = <<>>
    /\ console = <<>>
    /\ returned = "running"
    /\ output_dir = {}
    /\ geojson = <<>>
    /\ read_back = <<>>
    /\ IdleScoring
    /\ IdleBesideAssessment

\* Step 1: the status of the four sources; any missing one ends the run
CheckAllDataSources ==
    /\ pc = "check_sources"
    /\ data_status' = check_all_data_sources(files)
    /\ IF missing_sources(data_status') # <<>>
       THEN /\ console' = Append(console, [line |-> "Missing data sources",
                                           sources |-> missing_sources(data_status')])
            /\ returned' = "False"
            /\ pc' = "returned"
       ELSE /\ pc' = "ibge"
            /\ UNCHANGED <<console, returned>>
    /\ UNCHANGED <<scoring, beside_assessment, files, output_dir, geojson, read_back>>

\* Step 2: the municipality boundaries
DownloadIbgeBoundaries ==
    /\ pc = "ibge"
    /\ LET out == download_ibge_boundaries(files.ibge)
       IN IF out.ok
          THEN /\ files' = [files EXCEPT !.ibge = out.ibge]
               /\ pc' = "load"
               /\ UNCHANGED <<console, returned>>
          ELSE /\ console' = Append(console, [line |-> "Failed to load IBGE boundaries",
                                              sources |-> <<>>])
               /\ returned' = "False"
               /\ pc' = "returned"
               /\ UNCHANGED files
    /\ UNCHANGED <<scoring, beside_assessment, data_status, output_dir, geojson, read_back>>

\* Step 3: load_all_data; gpd.read_file raises on an unreadable boundary file
LoadAllData ==
    /\ pc = "load"
    /\ IF ~files.ibge.geojson.readable
       THEN /\ pc' = "load_raised"
            /\ UNCHANGED inputs
       ELSE /\ heritage' = files.iphan.records
            /\ alerts' = files.cemaden.records
            /\ boundaries' = files.ibge.geojson.records
            /\ dams' = load_directory(files.snisb)
            /\ fires' = load_directory(files.inpe)
            /\ pc' = "join"
    /\ UNCHANGED <<rows, municipal, aggregation, elsewhere>>

\* Steps 5 to 7: the analysis, save_comprehensive_results and the summary
SaveComprehensiveResults ==
    /\ pc = "done"
    /\ returned = "running"
    /\ geojson' = to_file(rows)
    /\ output_dir' = output_dir \cup ResultFiles
    /\ returned' = "True"
    /\ pc' = "returned"
    /\ UNCHANGED <<scoring, beside_assessment, files, data_status, console, read_back>>

\* except Exception: the error is printed and the run returns False
HandleException ==
    /\ pc \in {"load_raised", "dam_raised", "fire_raised"}
    /\ returned = "running"
    /\ console' = Append(console, [line |-> "Error", sources |-> <<>>])
    /\ returned' = "False"
    /\ pc' = "returned"
    /\ UNCHANGED <<scoring, beside_assessment, files, data_status, output_dir, geojson, read_back>>

\* comprehensive_heritage_risk.geojson read again with gpd.read_file
ReadBack ==
    /\ pc = "returned"
    /\ returned = "True"
    /\ read_back' = read_file(geojson)
    /\ pc' = "read_back"
    /\ UNCHANGED <<scoring, beside_assessment, files, data_status, console, returned,
                   output_dir, geojson>>

NextAssessment ==
    \/ CheckAllDataSources
    \/ DownloadIbgeBoundaries
    \/ LoadAllData
    \/ SpatialJoin
    \/ MunicipalRisk
    \/ DamProximity
    \/ FireRisk
    \/ CombineRisks
    \/ SaveComprehensiveResults
    \/ HandleException
    \/ ReadBack

SpecAssessment == InitAssessment /\ [][NextAssessment]_vars

----------------------------------------------------------------------------
(* Properties of run_comprehensive_assessment *)

\* a source is usable when it holds at least one record that can be loaded
Loadable(dir) ==
    dir.exists /\ \E i \in 1..Len(dir.listing) :
                      dir.listing[i].readable /\ Len(dir.listing[i].records) > 0

Usable ==
    [cemaden |-> check_file_exists(files.cemaden),
     iphan |-> check_file_exists(files.iphan),
     snisb |-> Loadable(files.snisb),
     inpe |-> Loadable(files.inpe)]

Unusable == {name \in {"cemaden", "iphan", "snisb", "inpe"} : ~Usable[name]}

Scoring == pc \in {"join", "cemaden", "dam", "fire", "combine", "done",
                   "dam_raised", "fire_raised"}

\* C14: when a source (CEMADEN, IPHAN, SNISB, INPE) is missing, empty or
\* yields no loadable record, the run never reaches the scoring, returns
\* False with every such source named, and writes no result file.
C14_AbortsOnUnusableSource ==
    (returned # "no call" /\ Unusable # {}) =>
        /\ ~Scoring
        /\ output_dir = {}
        /\ returned # "True"
        /\ returned = "False" =>
              \E m \in 1..Len(console) :
                  \A name \in Unusable :
                      \E i \in 1..Len(console[m].sources) : console[m].sources[i] = name

----------------------------------------------------------------------------
(* Round trip of the result file *)

\* the value of a float cell of the frame, as a cell of a frame read
DistanceCell(distance) == ReadDistance(FALSE, distance.inf, distance.mm)

\* C17: the frame read from comprehensive_heritage_risk.geojson has, feature
\* by feature, the attribute values of the frame written,
\* nearest_dam_distance and its infinity included, and the same coordinates.
C17_RoundTripIdentical ==
    pc = "read_back" =>
        /\ Len(read_back) = Len(rows)
        /\ \A k \in 1..Len(rows) :
              /\ read_back[k].geometry = rows[k].geometry
              /\ read_back[k].municipality = rows[k].municipality
              /\ read_back[k].uf = rows[k].uf
              /\ read_back[k].dam_risk_score = Cell(rows[k].dam_risk_score)
              /\ read_back[k].nearest_dam_distance = DistanceCell(rows[k].nearest_dam_distance)
              /\ read_back[k].fire_risk_score = Cell(rows[k].fire_risk_score)
              /\ read_back[k].cemaden_risk_score = Cell(rows[k].cemaden_risk_score)
              /\ read_back[k].cemaden_alerts = Cell(rows[k].cemaden_alerts)
              /\ read_back[k].comprehensive_risk_score = Cell(rows[k].comprehensive_risk_score)
              /\ read_back[k].comprehensive_risk_category = rows[k].comprehensive_risk_category
              /\ read_back[k].risk_color = rows[k].risk_color

----------------------------------------------------------------------------
(* The coordinate checks: deep_coordinate_check.py,                         *)
(* INPEFireCollector.clean_data and IPHANDataExtractor.validate_coordinates. *)
(* Coordinates are in tenths of a degree.                                    *)

\* a coordinate as a record carries it: a number, a missing value (None or
\* NaN), text that reads as a number, or other text
Number(value) == [kind |-> "number", value |-> value]
Missing == [kind |-> "missing", value |-> 0]
NumericText(value) == [kind |-> "numeric text", value |-> value]
Text == [kind |-> "text", value |-> 0]

Record(longitude, latitude) == [longitude |-> longitude, latitude |-> latitude]

\* records inside, on and just outside every limit the three checks draw
PointCatalog ==
    << Record(Number(-500), Number(-150)),
       Record(Number(-740), Number(60)),
       Record(Number(-741), Number(0)),
       Record(Number(-720), Number(-320)),
       Record(Number(-365), Number(35)),
       Record(Number(-360), Number(40)),
       Record(Number(-718), Number(10)),
       Record(Number(-715), Number(0)),
       Record(Number(-650), Number(0)),
       Record(Number(-718), Number(-1)),
       Record(Number(-339), Number(0)),
       Record(Number(-500), Number(61)),
       Record(Number(-500), Number(-325)),
       Record(Missing, Missing),
       Record(Number(-500), Missing),
       Record(Text, Number(-150)),
       Record(NumericText(-500), Number(-150)) >>

\* a record that is a feature of a GeoJSON file: a point or no geometry
IsFeature(record) ==
    \/ record.longitude.kind = "number" /\ record.latitude.kind = "number"
    \/ record.longitude.kind = "missing" /\ record.latitude.kind = "missing"

HasGeometry(record) == record.longitude.kind = "number"

----------------------------------------------------------------------------
(* deep_coordinate_check.py *)

\* the limits with their edges left out
in_strict_brazil_open(lon, lat) == (-740 < lon /\ lon < -340) /\ (-340 < lat /\ lat < 60)

\* (-74 <= lon <= -34) and (-34 <= lat <= 6)
in_strict_brazil(lon, lat) == (-740 <= lon /\ lon <= -340) /\ (-340 <= lat /\ lat <= 60)

\* the loop over gdf.iterrows() from the row with index label idx on:
\* row.geometry.x raises on a feature without geometry, which ends the loop
RECURSIVE check_every_point(_, _, _, _)
check_every_point(gdf, idx, valid_points, invalid_points) ==
    IF gdf = <<>>
    THEN [raised |-> FALSE, valid_points |-> valid_points, invalid_points |-> invalid_points]
    ELSE IF ~HasGeometry(Head(gdf))
    THEN [raised |-> TRUE, valid_points |-> valid_points, invalid_points |-> invalid_points]
    ELSE LET lon == Head(gdf).longitude.value
             lat == Head(gdf).latitude.value
         IN IF in_strict_brazil(lon, lat)
            THEN check_every_point(Tail(gdf), idx + 1, Append(valid_points, idx),
                                   invalid_points)
            ELSE check_every_point(Tail(gdf), idx + 1, valid_points,
                                   Append(invalid_points,
                                          [index |-> idx, longitude |-> lon, latitude |-> lat]))

\* the script: the two lists, and the clean file written from gdf.iloc[valid_points]
deep_coordinate_check(gdf) ==
    LET out == check_every_point(gdf, 0, <<>>, <<>>)
    IN [raised |-> out.raised,
        valid_points |-> out.valid_points,
        invalid_points |-> out.invalid_points,
        clean_gdf |-> IF out.raised \/ out.valid_points = <<>> THEN <<>>
                      ELSE [k \in 1..Len(out.valid_points) |-> gdf[out.valid_points[k] + 1]]]

----------------------------------------------------------------------------
(* INPEFireCollector.clean_data and IPHANDataExtractor.validate_coordinates *)

\* the limits of clean_data and of validate_coordinates
extreme_bounds == [north |-> 40, south |-> -325, east |-> -360, west |-> -725]
brazil_bounds == [north |-> 45, south |-> -330, east |-> -355, west |-> -725]
\* 0.5 degree and 1.0 degree, in both methods
border_buffer == 5
amazon_buffer == 10
\* the north-west corner: latitude >= 0 and longitude <= -65
NorthwestSouth == 0
NorthwestEast == -650

\* the first filter: the limits themselves
in_bounds(lon, lat, bounds) ==
    /\ lat >= bounds.south /\ lat <= bounds.north
    /\ lon >= bounds.west /\ lon <= bounds.east

\* the second filter: the limits drawn in by border_buffer
in_buffered_bounds(lon, lat, bounds) ==
    /\ lat >= bounds.south + border_buffer /\ lat <= bounds.north - border_buffer
    /\ lon >= bounds.west + border_buffer /\ lon <= bounds.east - border_buffer

\* a north-west region that holds no point
northwest_region_nowhere(lon, lat) == FALSE

northwest_region(lon, lat) == lat >= NorthwestSouth /\ lon <= NorthwestEast

\* ~northwest_region | (northwest_region & (longitude >= west + amazon_buffer))
extra_buffer_mask(lon, lat, bounds) ==
    \/ ~northwest_region(lon, lat)
    \/ northwest_region(lon, lat) /\ lon >= bounds.west + amazon_buffer

passes_filters(lon, lat, bounds) ==
    /\ in_bounds(lon, lat, bounds)
    /\ in_buffered_bounds(lon, lat, bounds)
    /\ extra_buffer_mask(lon, lat, bounds)

\* pd.to_numeric(column, errors='coerce'): text that reads as a number
\* becomes that number, any other text NaN
to_numeric(coordinate) ==
    CASE coordinate.kind = "number" -> coordinate
      [] coordinate.kind = "numeric text" -> Number(coordinate.value)
      [] OTHER -> Missing

\* df.dropna(subset=['latitude', 'longitude'])
dropna(df) ==
    SubSeqOf(df, {i \in 1..Len(df) :
                     df[i].latitude.kind # "missing" /\ df[i].longitude.kind # "missing"})

\* clean_data: None for no data; otherwise the rows that survive, in order
clean_data(df) ==
    IF Len(df) = 0 THEN [raised |-> FALSE, none |-> TRUE, rows |-> <<>>]
    ELSE LET present == dropna(df)
             numeric == dropna([i \in 1..Len(present) |->
                                   Record(to_numeric(present[i].longitude),
                                          to_numeric(present[i].latitude))])
         IN [raised |-> FALSE,
             none |-> FALSE,
             rows |-> SubSeqOf(numeric, {i \in 1..Len(numeric) :
                          passes_filters(numeric[i].longitude.value,
                                         numeric[i].latitude.value, extreme_bounds)})]

\* a comparison of a column with a float raises TypeError when the column
\* holds text
comparison_raises(gdf) ==
    \E i \in 1..Len(gdf) :
        \/ gdf[i].longitude.kind \in {"text", "numeric text"}
        \/ gdf[i].latitude.kind \in {"text", "numeric text"}

\* validate_coordinates: the frame as it is when empty; otherwise the rows
\* that survive, in order.  The coordinates are those of the latitude and
\* longitude columns, which are filled from the geometry when the frame
\* lacks one of them; a missing value compares False with every limit.
validate_coordinates(gdf) ==
    IF Len(gdf) = 0 THEN [raised |-> FALSE, rows |-> gdf]
    ELSE IF comparison_raises(gdf) THEN [raised |-> TRUE, rows |-> <<>>]
    ELSE [raised |-> FALSE,
          rows |-> SubSeqOf(gdf, {i \in 1..Len(gdf) :
                      /\ gdf[i].longitude.kind = "number"
                      /\ gdf[i].latitude.kind = "number"
                      /\ passes_filters(gdf[i].longitude.value, gdf[i].latitude.value,
                                        brazil_bounds)})]

----------------------------------------------------------------------------
(* One coordinate check applied to one list of records *)

InitValidator ==
    /\ pc = "check_coordinates"
    /\ points \in UNION {[1..n -> {PointCatalog[c] : c \in 1..Len(PointCatalog)}] :
                            n \in 0..MaxPoints}
    /\ checked = <<>>
    /\ IdleBesideValidator

\* the file deep_coordinate_check.py reads holds features: points, or
\* features without geometry
DeepCoordinateCheck ==
    /\ pc = "check_coordinates"
    /\ \A i \in 1..Len(points) : IsFeature(points[i])
    /\ checked' = deep_coordinate_check(points)
    /\ pc' = "deep_checked"
    /\ UNCHANGED <<points, beside_validator>>

CleanData ==
    /\ pc = "check_coordinates"
    /\ checked' = clean_data(points)
    /\ pc' = "cleaned"
    /\ UNCHANGED <<points, beside_validator>>

\* the frame has latitude and longitude columns of its own, or takes them
\* from its geometry
ValidateCoordinates ==
    /\ pc = "check_coordinates"
    /\ \E from_geometry \in BOOLEAN :
          /\ from_geometry => \A i \in 1..Len(points) : IsFeature(points[i])
          /\ checked' = validate_coordinates(points)
    /\ pc' = "validated"
    /\ UNCHANGED <<points, beside_validator>>

NextValidator ==
    \/ DeepCoordinateCheck
    \/ CleanData
    \/ ValidateCoordinates

SpecValidator == InitValidator /\ [][NextValidator]_vars

----------------------------------------------------------------------------
(* Properties of the coordinate checks *)

Increasing(indices) ==
    \A i, j \in 1..Len(indices) : i < j => indices[i] < indices[j]

ListedValid == {checked.valid_points[k] : k \in 1..Len(checked.valid_points)}
ListedInvalid == {checked.invalid_points[k].index : k \in 1..Len(checked.invalid_points)}

\* C15: the check of deep_coordinate_check.py puts every point of its input
\* in exactly one of valid_points and invalid_points, each list in input
\* order, and a point in valid_points exactly when -74 <= lon <= -34 and
\* -34 <= lat <= 6; the loop runs to its end exactly when every feature of
\* the file has a point geometry.
C15_PartitionInOrder ==
    pc = "deep_checked" =>
        /\ checked.raised <=> \E i \in 1..Len(points) : ~HasGeometry(points[i])
        /\ ~checked.raised =>
              /\ ListedValid \cup ListedInvalid = {i - 1 : i \in 1..Len(points)}
              /\ ListedValid \cap ListedInvalid = {}
              /\ Len(checked.valid_points) + Len(checked.invalid_points) = Len(points)
              /\ Increasing(checked.valid_points)
              /\ Increasing([k \in 1..Len(checked.invalid_points) |->
                                checked.invalid_points[k].index])
              /\ \A i \in 1..Len(points) :
                    (i - 1) \in ListedValid <=>
                        /\ -740 <= points[i].longitude.value
                        /\ points[i].longitude.value <= -340
                        /\ -340 <= points[i].latitude.value
                        /\ points[i].latitude.value <= 60

\* a point on the corner of the limits listed valid after a point listed invalid
C15_Witness ==
    /\ pc = "deep_checked"
    /\ ~checked.raised
    /\ Len(points) = 2
    /\ points[1] = Record(Number(-741), Number(0))
    /\ points[2] = Record(Number(-740), Number(60))
    /\ checked.valid_points = <<1>>
    /\ checked.invalid_points = <<[index |-> 0, longitude |-> -741, latitude |-> 0]>>

\* the records that are present and numeric and lie within the limits drawn
\* in by the margin
WithinMargin(record, west, east, south, north, margin) ==
    /\ record.longitude.kind = "number"
    /\ record.latitude.kind = "number"
    /\ west + margin <= record.longitude.value
    /\ record.longitude.value <= east - margin
    /\ south + margin <= record.latitude.value
    /\ record.latitude.value <= north - margin

InCutCorner(lon, lat) == lat >= 0 /\ lon <= -650 /\ lon < -715

\* the coordinates clean_data reads from a record: text that reads as a
\* number counts as that number
ReadAsNumbers(record) ==
    Record(IF record.longitude.kind = "numeric text"
           THEN Number(record.longitude.value) ELSE record.longitude,
           IF record.latitude.kind = "numeric text"
           THEN Number(record.latitude.value) ELSE record.latitude)

KeptByCleanData(record) ==
    /\ WithinMargin(ReadAsNumbers(record), -725, -360, -325, 40, 5)
    /\ ~InCutCorner(ReadAsNumbers(record).longitude.value,
                    ReadAsNumbers(record).latitude.value)

KeptByValidateCoordinates(record) ==
    /\ WithinMargin(record, -725, -355, -330, 45, 5)
    /\ ~InCutCorner(record.longitude.value, record.latitude.value)

HoldsText(record) ==
    \/ record.longitude.kind \in {"text", "numeric text"}
    \/ record.latitude.kind \in {"text", "numeric text"}

----------------------------------------------------------------------------
(* master_heritage_pipeline.py: MasterHeritageRiskPipeline, and the scripts *)
(* it runs as far as they change the data files and end with an exit code.  *)

\* self.scripts, in the order run_complete_pipeline runs them
ScriptNames == <<"cemaden_collector", "generate_map", "heritage_assessment">>

\* expected_files of check_results
ExpectedFiles ==
    {"comprehensive_heritage_risk.geojson",
     "comprehensive_heritage_risk.csv",
     "comprehensive_analysis.json"}

\* the records of a source's files: none, records fetched from the
\* source, or records made by create_sample_data, generate_test_data or
\* create_enhanced_sample_data
Provenance == {"absent", "fetched", "synthetic"}

\* how subprocess.run ends: with a return code, with TimeoutExpired after
\* 1800 seconds, or with another exception
Outcomes == {"exit 0", "exit 1", "timeout", "error"}

\* check_scripts_exist: no script of self.scripts is missing
check_scripts_exist == \A k \in 1..Len(ScriptNames) : ScriptNames[k] \in scripts_on_disk

\* a run_script that takes every return code for success
run_script_whatever_the_code(outcome) == outcome \in {"exit 0", "exit 1"}

\* run_script: True for return code 0, False for any other code, for
\* TimeoutExpired and for any other exception
run_script(outcome) == outcome = "exit 0"

\* CemadenScraper.__init__ and run_scraper under main: the file
\* real_time_cemaden_data.json afterwards, and the exit code.  Without a
\* connection the sample data is returned and nothing is saved; with a
\* connection and nothing scraped the sample data is saved; main exits
\* with 0 either way.  The missing project_data/cemaden directory makes
\* logging.FileHandler raise before anything is written.
cemaden_collector(network, file) ==
    CASE network = "no directory" -> [file |-> file, outcome |-> "exit 1"]
      [] network = "no connection" -> [file |-> file, outcome |-> "exit 0"]
      [] network = "nothing scraped" -> [file |-> "synthetic", outcome |-> "exit 0"]
      [] network = "alerts scraped" -> [file |-> "fetched", outcome |-> "exit 0"]

CemadenRuns == {"no directory", "no connection", "nothing scraped", "alerts scraped"}

\* generate_map.py main as far as process_inpe_data and INPEFireCollector.run
\* go: current_fire_points.geojson in inpe_data/geojson afterwards.  run
\* saves generate_test_data's points whenever it gets no risk files, no
\* valid data after cleaning or an exception, and returns success; main
\* exits with 0.
generate_map(retrieved, directory) ==
    IF retrieved
    THEN [directory |-> "fetched", outcome |-> "exit 0"]
    ELSE [directory |-> "synthetic", outcome |-> "exit 0"]

\* run_comprehensive_assessment as the master pipeline sees it: False when
\* check_all_data_sources misses a source or a step raises, True after
\* save_comprehensive_results
run_comprehensive_assessment(available, raised) ==
    IF \E s \in DOMAIN available : available[s] = "absent" THEN "False"
    ELSE IF raised THEN "False"
    ELSE "True"

\* heritage_risk_assessment.py main: prints what run_comprehensive_assessment
\* returned and ends; the exit code is 0 for True and for False
heritage_risk_assessment_main(available, raised) ==
    LET result == run_comprehensive_assessment(available, raised)
    IN [returned |-> result,
        computed_from |-> IF result = "True" THEN available ELSE <<>>,
        outcome |-> "exit 0"]

NotAssessed == [returned |-> "not run", computed_from |-> <<>>]

InitMaster ==
    /\ pc = "check_scripts"
    /\ scripts_on_disk \in SUBSET {ScriptNames[k] : k \in 1..Len(ScriptNames)}
    /\ sources \in [cemaden : {"absent", "fetched"},
                    iphan : {"absent", "fetched"},
                    snisb : Provenance,
                    inpe : {"absent", "fetched"}]
    /\ steps = <<>>
    /\ assessed = NotAssessed
    /\ results_dir \in {{}, ExpectedFiles}
    /\ success = "running"
    /\ IdleBesideMaster

\* Step 1 of run_complete_pipeline
CheckScriptsExist ==
    /\ pc = "check_scripts"
    /\ IF check_scripts_exist
       THEN pc' = "cemaden_collector" /\ UNCHANGED success
       ELSE pc' = "returned" /\ success' = "False"
    /\ UNCHANGED <<scripts_on_disk, sources, steps, assessed, results_dir, beside_master>>

\* what run_complete_pipeline does with the result of run_script
AfterStep(script, outcome, next) ==
    /\ steps' = Append(steps, [script |-> script, outcome |-> outcome])
    /\ IF run_script(outcome)
       THEN pc' = next /\ UNCHANGED success
       ELSE pc' = "returned" /\ success' = "False"

\* Step 2: cemaden_collector.py, which may also run into the timeout
RunCemadenCollector ==
    /\ pc = "cemaden_collector"
    /\ \/ \E network \in CemadenRuns :
             LET run == cemaden_collector(network, sources.cemaden)
             IN /\ sources' = [sources EXCEPT !.cemaden = run.file]
                /\ AfterStep("cemaden_collector", run.outcome, "generate_map")
       \/ \E outcome \in {"timeout", "error"} :
             /\ UNCHANGED sources
             /\ AfterStep("cemaden_collector", outcome, "generate_map")
    /\ UNCHANGED <<scripts_on_disk, assessed, results_dir, beside_master>>

\* Step 3: generate_map.py, which may also end on an uncaught exception or
\* run into the timeout
RunGenerateMap ==
    /\ pc = "generate_map"
    /\ \/ \E retrieved \in BOOLEAN :
             LET run == generate_map(retrieved, sources.inpe)
             IN /\ sources' = [sources EXCEPT !.inpe = run.directory]
                /\ AfterStep("generate_map", run.outcome, "heritage_assessment")
       \/ \E outcome \in {"exit 1", "timeout", "error"} :
             /\ UNCHANGED sources
             /\ AfterStep("generate_map", outcome, "heritage_assessment")
    /\ UNCHANGED <<scripts_on_disk, assessed, results_dir, beside_master>>

\* Step 4: heritage_risk_assessment.py, which may also end on an exception
\* outside run_comprehensive_assessment or run into the timeout
RunHeritageAssessment ==
    /\ pc = "heritage_assessment"
    /\ \/ \E raised \in BOOLEAN :
             LET run == heritage_risk_assessment_main(sources, raised)
             IN /\ assessed' = [returned |-> run.returned,
                                computed_from |-> run.computed_from]
                /\ results_dir' = IF run.returned = "True"
                                  THEN results_dir \cup ExpectedFiles
                                  ELSE results_dir
                /\ AfterStep("heritage_assessment", run.outcome, "check_results")
       \/ \E outcome \in {"exit 1", "timeout", "error"} :
             /\ UNCHANGED <<assessed, results_dir>>
             /\ AfterStep("heritage_assessment", outcome, "check_results")
    /\ UNCHANGED <<scripts_on_disk, sources, beside_master>>

\* Step 5: check_results prints which expected files exist and returns
\* None; print_summary(True, ...) prints MASTER PIPELINE COMPLETED
\* SUCCESSFULLY and run_complete_pipeline returns True
CheckResults ==
    /\ pc = "check_results"
    /\ success' = "True"
    /\ pc' = "returned"
    /\ UNCHANGED <<scripts_on_disk, sources, steps, assessed, results_dir, beside_master>>

NextMaster ==
    \/ CheckScriptsExist
    \/ RunCemadenCollector
    \/ RunGenerateMap
    \/ RunHeritageAssessment
    \/ CheckResults

SpecMaster == InitMaster /\ [][NextMaster]_vars

----------------------------------------------------------------------------
(* Properties of the master pipeline *)

\* C18: no run of the master pipeline that reports success has its
\* comprehensive results computed from sample or test records
\* (create_sample_data, generate_test_data, create_enhanced_sample_data).
C18_NeverShipsSyntheticData ==
    success = "True" =>
        \A s \in DOMAIN assessed.computed_from : assessed.computed_from[s] # "synthetic"

\* C19: the steps run in the order cemaden_collector, generate_map,
\* heritage_assessment; a step is run only after every earlier step ended
\* with exit code 0 within the timeout; a step that ends otherwise is the
\* last one run and the pipeline returns False at once; True is returned
\* only after all three steps ended with exit code 0.
C19_FixedOrderStopAtFirstFailure ==
    /\ Len(steps) <= Len(ScriptNames)
    /\ \A k \in 1..Len(steps) : steps[k].script = ScriptNames[k]
    /\ \A k \in 1..Len(steps) : k < Len(steps) => steps[k].outcome = "exit 0"
    /\ \A k \in 1..Len(steps) :
          steps[k].outcome # "exit 0" => pc = "returned" /\ success = "False"
    /\ pc \in {"heritage_assessment", "check_results"} =>
          /\ Len(steps) >= 2
          /\ steps[1].outcome = "exit 0"
          /\ steps[2].outcome = "exit 0"
    /\ success = "True" =>
          /\ Len(steps) = Len(ScriptNames)
          /\ \A k \in 1..Len(steps) : steps[k].outcome = "exit 0"

\* generate_map.py ran into the timeout after cemaden_collector.py ended
\* with 0: the pipeline returned False and the assessment was never run
C19_Witness ==
    /\ pc = "returned"
    /\ success = "False"
    /\ Len(steps) = 2
    /\ steps[1] = [script |-> "cemaden_collector", outcome |-> "exit 0"]
    /\ steps[2] = [script |-> "generate_map", outcome |-> "timeout"]
    /\ assessed = NotAssessed

\* C20: run_complete_pipeline returns True only if
\* run_comprehensive_assessment returned True in the
\* heritage_risk_assessment.py process and the three expected result files
\* exist.
C20_SuccessOnlyIfAssessmentSucceeded ==
    success = "True" =>
        /\ assessed.returned = "True"
        /\ ExpectedFiles \subseteq results_dir

----------------------------------------------------------------------------
(* inpe_collector.py: INPEFireCollector.run.  Coordinates are in tenths of  *)
(* a degree; a frame is known by where its points come from.                *)

\* a DataFrame or GeoDataFrame of fire points: the points extracted from
\* downloaded TIF files carry source_file, those of generate_test_data
\* carry satelite 'TEST_SATELLITE'
Frame(origin, frame_rows) == [origin |-> origin, rows |-> frame_rows]
\* None
NoFrame == Frame("none", <<>>)

\* pixels of risk above 0.4 a downloaded raster may hold: inland, in the
\* north-west corner clean_data cuts away, and east of every limit
RasterCatalog ==
    { Record(Number(-500), Number(-150)),
      Record(Number(-718), Number(10)),
      Record(Number(-339), Number(0)) }

\* the points generate_test_data makes, one of its Central_Amazon points and
\* one of its Brasilia points standing for the twenty
TestPoints == << Record(Number(-585), Number(-40)), Record(Number(-478), Number(-158)) >>

\* the calls that may fail in a run
FaultSites ==
    { "process_risk_files",
      "to_csv in clean_data",
      "to_csv in generate_test_data",
      "create_geodataframe of TIF points",
      "create_geodataframe of test points",
      "create_summary" }

\* ultra_strict_bounds of process_risk_files and its border_buffer of 0.2
ultra_strict_bounds == [north |-> 45, south |-> -330, east |-> -355, west |-> -730]
tif_border_buffer == 2

\* process_risk_files: the pixels inside the limits as points, None when
\* there is none or when reading the files raises
process_risk_files(raster, faults) ==
    IF "process_risk_files" \in faults THEN NoFrame
    ELSE LET kept == SubSeqOf(raster, {i \in 1..Len(raster) :
                        /\ ultra_strict_bounds.west + tif_border_buffer
                               <= raster[i].longitude.value
                        /\ raster[i].longitude.value
                               <= ultra_strict_bounds.east - tif_border_buffer
                        /\ ultra_strict_bounds.south + tif_border_buffer
                               <= raster[i].latitude.value
                        /\ raster[i].latitude.value
                               <= ultra_strict_bounds.north - tif_border_buffer})
         IN IF kept = <<>> THEN NoFrame ELSE Frame("tif", kept)

\* generate_test_data: sets the flag, makes the points and caches them
generate_test_data(faults) ==
    [raised |-> "to_csv in generate_test_data" \in faults, frame |-> Frame("generated", TestPoints)]

\* clean_data on a frame: None for None or no rows; the cache file is
\* written after the filters
clean_frame(frame, faults) ==
    IF frame = NoFrame \/ frame.rows = <<>> THEN [raised |-> FALSE, frame |-> NoFrame]
    ELSE IF "to_csv in clean_data" \in faults THEN [raised |-> TRUE, frame |-> NoFrame]
    ELSE [raised |-> FALSE, frame |-> Frame(frame.origin, clean_data(frame.rows).rows)]

\* create_geodataframe: None for None, for no rows and when it raises inside
create_geodataframe(frame, faults) ==
    IF frame = NoFrame \/ frame.rows = <<>> THEN NoFrame
    ELSE IF frame.origin = "tif" /\ "create_geodataframe of TIF points" \in faults THEN NoFrame
    ELSE IF frame.origin = "generated" /\ "create_geodataframe of test points" \in faults
    THEN NoFrame
    ELSE frame

\* {}
NoSummary == [data_quality |-> "absent", total_fire_risk_points |-> 0]

\* a create_summary that labels every summary REAL-TIME
create_summary_always_real(gdf, is_using_test_data, faults) ==
    IF gdf = NoFrame \/ gdf.rows = <<>> THEN NoSummary
    ELSE IF "create_summary" \in faults THEN NoSummary
    ELSE [data_quality |-> "REAL-TIME", total_fire_risk_points |-> Len(gdf.rows)]

\* create_summary: {} for no data and when it raises inside; data_quality
\* from self.is_using_test_data
create_summary(gdf, is_using_test_data, faults) ==
    IF gdf = NoFrame \/ gdf.rows = <<>> THEN NoSummary
    ELSE IF "create_summary" \in faults THEN NoSummary
    ELSE [data_quality |-> IF is_using_test_data THEN "TEST_DATA" ELSE "REAL-TIME",
          total_fire_risk_points |-> Len(gdf.rows)]

\* what run hands back, or the exception that leaves it
Returned(gdf, summary, is_test_data, flag) ==
    [raised |-> FALSE, success |-> TRUE, geodataframe |-> gdf, summary |-> summary,
     is_test_data |-> is_test_data, is_using_test_data |-> flag]
Raised(flag) ==
    [raised |-> TRUE, success |-> FALSE, geodataframe |-> NoFrame, summary |-> NoSummary,
     is_test_data |-> FALSE, is_using_test_data |-> flag]

\* the except block of run: test data, saved and summarised, flagged True;
\* an exception of generate_test_data leaves run
run_except(faults) ==
    LET test == generate_test_data(faults)
    IN IF test.raised THEN Raised(TRUE)
       ELSE LET gdf == create_geodataframe(test.frame, faults)
            IN Returned(gdf, create_summary(gdf, TRUE, faults), TRUE, TRUE)

\* the try block of run from create_geodataframe on, with the flag as it
\* stands
run_from_geodataframe(cleaned_df, flag, faults) ==
    LET gdf == create_geodataframe(cleaned_df, faults)
    IN IF gdf = NoFrame
       THEN LET test == generate_test_data(faults)
            IN IF test.raised THEN run_except(faults)
               ELSE LET test_gdf == create_geodataframe(test.frame, faults)
                    IN Returned(test_gdf, create_summary(test_gdf, TRUE, faults), TRUE, TRUE)
       ELSE Returned(gdf, create_summary(gdf, flag, faults), flag, flag)

\* the try block of run from clean_data on
run_from_clean_data(points_df, flag, faults) ==
    LET cleaned == clean_frame(points_df, faults)
    IN IF cleaned.raised THEN run_except(faults)
       ELSE IF cleaned.frame = NoFrame \/ cleaned.frame.rows = <<>>
       THEN LET test == generate_test_data(faults)
            IN IF test.raised THEN run_except(faults)
               ELSE run_from_geodataframe(test.frame, TRUE, faults)
       ELSE run_from_geodataframe(cleaned.frame, flag, faults)

\* run: tif_files is empty unless files were listed and downloaded
inpe_run(listing, raster, faults) ==
    IF listing # "files"
    THEN LET test == generate_test_data(faults)
         IN IF test.raised THEN run_except(faults)
            ELSE run_from_clean_data(test.frame, TRUE, faults)
    ELSE run_from_clean_data(process_risk_files(raster, faults), FALSE, faults)

\* what get_latest_risk_files meets: no answer or an error, a listing
\* without a file of today, or files it downloads
Listings == {"unreachable", "no files", "files"}

InitInpe ==
    /\ pc = "inpe_run"
    /\ remote \in [listing : Listings,
                   raster : UNION {[1..n -> RasterCatalog] : n \in 0..MaxPoints},
                   faults : SUBSET FaultSites]
    /\ remote.listing # "files" => remote.raster = <<>>
    /\ collector = [is_using_test_data |-> FALSE]
    /\ disk = <<>>
    /\ called = <<>>
    /\ handed_back = <<>>
    /\ IdleBesideCollection

\* INPEFireCollector.run; save_data writes the frame it is given
InpeRun ==
    /\ pc = "inpe_run"
    /\ LET out == inpe_run(remote.listing, remote.raster, remote.faults)
       IN /\ handed_back' = out
          /\ collector' = [is_using_test_data |-> out.is_using_test_data]
          /\ disk' = IF out.raised \/ out.geodataframe = NoFrame THEN disk
                     ELSE [current_fire_points |-> out.geodataframe]
    /\ called' = <<"run">>
    /\ pc' = "inpe_returned"
    /\ UNCHANGED <<remote, beside_collection>>

NextInpe == InpeRun

SpecInpe == InitInpe /\ [][NextInpe]_vars

\* C21: on every path of run that returns a geodataframe, is_test_data is
\* True exactly when the geodataframe holds the points of
\* generate_test_data and False exactly when it holds points extracted
\* from downloaded TIF files, and the data_quality of a summary that was
\* made is TEST_DATA in the first case and REAL-TIME in the second; a run
\* that returns no geodataframe is flagged as test data.
C21_FlagTellsTestData ==
    (pc = "inpe_returned" /\ ~handed_back.raised) =>
        /\ handed_back.geodataframe.origin = "generated" =>
              /\ handed_back.is_test_data
              /\ handed_back.summary.data_quality \in {"TEST_DATA", "absent"}
        /\ handed_back.geodataframe.origin = "tif" =>
              /\ ~handed_back.is_test_data
              /\ handed_back.summary.data_quality \in {"REAL-TIME", "absent"}
        /\ handed_back.geodataframe.origin = "none" =>
              /\ handed_back.is_test_data
              /\ handed_back.summary.data_quality = "absent"
        /\ handed_back.is_test_data = handed_back.is_using_test_data

\* files were downloaded and cleaning left nothing of their points: test
\* data returned and labelled so
C21_Witness ==
    /\ pc = "inpe_returned"
    /\ remote.listing = "files"
    /\ remote.raster = <<Record(Number(-718), Number(10))>>
    /\ remote.faults = {}
    /\ handed_back.geodataframe = Frame("generated", TestPoints)
    /\ handed_back.is_test_data
    /\ handed_back.summary.data_quality = "TEST_DATA"

----------------------------------------------------------------------------
(* cemaden_collector.py: CemadenScraper.run_scraper and main *)

Alert(municipio, uf, tipo_alerta, nivel, timestamp) ==
    [municipio |-> municipio, uf |-> uf, tipo_alerta |-> tipo_alerta,
     nivel |-> nivel, timestamp |-> timestamp]

\* alerts as extract_alert_from_element and extract_alert_from_soup make
\* them: uf two capital letters, tipo_alerta one of two, nivel one of three
ScrapedCatalog ==
    { Alert("Recife", "PE", "Risco Hidrológico", "Alto", 1),
      Alert("Recife (Centro)", "PE", "Risco Hidrológico", "Muito Alto", 2),
      Alert("recife", "PE", "Risco Hidrológico", "Moderado", 2),
      Alert("Recife", "PE", "Risco Geológico", "Alto", 1),
      Alert("Olinda", "PE", "Risco Hidrológico", "Alto", 3) }

\* the time create_sample_data stamps its alerts with
SampleTime == 9

\* create_sample_data
create_sample_data ==
    << Alert("São Paulo", "SP", "Risco Hidrológico", "Alto", SampleTime),
       Alert("Rio de Janeiro", "RJ", "Risco Geológico", "Muito Alto", SampleTime),
       Alert("Belo Horizonte", "MG", "Risco Hidrológico", "Moderado", SampleTime),
       Alert("Salvador", "BA", "Risco Geológico", "Alto", SampleTime),
       Alert("Recife", "PE", "Risco Hidrológico", "Muito Alto", SampleTime) >>

\* clean_municipality_name on the names above: the parentheses and what
\* they hold removed, the spaces joined, the words in title case
clean_municipality_name(name) ==
    CASE name = "Recife (Centro)" -> "Recife"
      [] name = "recife" -> "Recife"
      [] OTHER -> name

\* str.upper on the two capital letters the patterns and the sample carry
upper(uf) == uf

\* process_alerts
process_alerts(raw_alerts) ==
    [i \in 1..Len(raw_alerts) |->
        [raw_alerts[i] EXCEPT !.municipio = clean_municipality_name(raw_alerts[i].municipio),
                              !.uf = upper(raw_alerts[i].uf)]]

\* f"{alert['municipio']}_{alert['uf']}_{alert['tipo_alerta']}"
alert_key(alert) == alert.municipio \o "_" \o alert.uf \o "_" \o alert.tipo_alerta

\* a comparison that lets an alert of the same time replace the one kept
more_recent_or_equal(alert, kept) == alert.timestamp >= kept.timestamp

\* alert['timestamp'] > grouped[key]['timestamp']
more_recent(alert, kept) == alert.timestamp > kept.timestamp

\* the loop of remove_duplicates over the dict grouped, whose keys stay in
\* the order they were first inserted
RECURSIVE group_alerts(_, _)
group_alerts(alert_list, grouped) ==
    IF alert_list = <<>> THEN grouped
    ELSE LET alert == Head(alert_list)
             key == alert_key(alert)
             at == {i \in 1..Len(grouped) : grouped[i].key = key}
         IN IF at = {}
            THEN group_alerts(Tail(alert_list),
                              Append(grouped, [key |-> key, alert |-> alert]))
            ELSE LET i == CHOOSE i \in at : TRUE
                 IN IF more_recent(alert, grouped[i].alert)
                    THEN group_alerts(Tail(alert_list),
                                      [grouped EXCEPT ![i] = [key |-> key, alert |-> alert]])
                    ELSE group_alerts(Tail(alert_list), grouped)

\* a remove_duplicates that keeps every alert
remove_duplicates_keeps_all(alert_list) == alert_list

\* remove_duplicates: list(grouped.values())
remove_duplicates(alert_list) ==
    IF alert_list = <<>> THEN <<>>
    ELSE LET grouped == group_alerts(alert_list, <<>>)
         IN [i \in 1..Len(grouped) |-> grouped[i].alert]

\* real_time_cemaden_data.json
NoFile == [exists |-> FALSE, alerts |-> <<>>]
FileOf(alert_list) == [exists |-> TRUE, alerts |-> alert_list]

ScrapedLists == UNION {[1..n -> ScrapedCatalog] : n \in 0..MaxScraped}

InitCemaden ==
    /\ pc = "run_scraper"
    /\ remote \in [connection : BOOLEAN, selenium : ScrapedLists, requests : ScrapedLists]
    /\ ~remote.connection => remote.selenium = <<>> /\ remote.requests = <<>>
    /\ remote.selenium # <<>> => remote.requests = <<>>
    /\ collector = [alerts |-> <<>>, processed_alerts |-> <<>>, final_alerts |-> <<>>,
                    reported |-> "nothing"]
    /\ disk \in {NoFile, FileOf(<<Alert("Olinda", "PE", "Risco Hidrológico", "Alto", 0)>>)}
    /\ called = <<>>
    /\ handed_back = <<>>
    /\ IdleBesideCollection

\* run_scraper up to the connection test: without a connection it returns
\* the sample data there and then
TestConnection ==
    /\ pc = "run_scraper"
    /\ called' = Append(called, "test_connection")
    /\ IF remote.connection
       THEN pc' = "scrape" /\ UNCHANGED handed_back
       ELSE pc' = "scraper_returned" /\ handed_back' = create_sample_data
    /\ UNCHANGED <<remote, collector, disk, beside_collection>>

\* scrape_with_selenium, then scrape_with_requests, then create_sample_data
Scrape ==
    /\ pc = "scrape"
    /\ LET first == remote.selenium
           second == IF first = <<>> THEN remote.requests ELSE first
           third == IF second = <<>> THEN create_sample_data ELSE second
       IN collector' = [collector EXCEPT !.alerts = third]
    /\ called' = called \o
                 (IF remote.selenium = <<>>
                  THEN IF remote.requests = <<>>
                       THEN <<"scrape_with_selenium", "scrape_with_requests",
                              "create_sample_data">>
                       ELSE <<"scrape_with_selenium", "scrape_with_requests">>
                  ELSE <<"scrape_with_selenium">>)
    /\ pc' = "process_alerts"
    /\ UNCHANGED <<remote, disk, handed_back, beside_collection>>

ProcessAlerts ==
    /\ pc = "process_alerts"
    /\ collector' = [collector EXCEPT !.processed_alerts = process_alerts(collector.alerts)]
    /\ called' = Append(called, "process_alerts")
    /\ pc' = "remove_duplicates"
    /\ UNCHANGED <<remote, disk, handed_back, beside_collection>>

RemoveDuplicates ==
    /\ pc = "remove_duplicates"
    /\ collector' = [collector EXCEPT
                        !.final_alerts = remove_duplicates(collector.processed_alerts)]
    /\ called' = Append(called, "remove_duplicates")
    /\ pc' = "save_data"
    /\ UNCHANGED <<remote, disk, handed_back, beside_collection>>

\* save_data writes nothing for an empty list; run_scraper returns
\* final_alerts
SaveData ==
    /\ pc = "save_data"
    /\ disk' = IF collector.final_alerts = <<>> THEN disk ELSE FileOf(collector.final_alerts)
    /\ called' = Append(called, "save_data")
    /\ handed_back' = collector.final_alerts
    /\ pc' = "scraper_returned"
    /\ UNCHANGED <<remote, collector, beside_collection>>

\* main: SUCCESS and 'Data saved to' for a list that is not empty
CemadenMain ==
    /\ pc = "scraper_returned"
    /\ collector' = [collector EXCEPT
                        !.reported = IF handed_back # <<>> THEN "SUCCESS: Data saved to"
                                     ELSE "No alerts collected"]
    /\ pc' = "main_done"
    /\ UNCHANGED <<remote, disk, called, handed_back, beside_collection>>

NextCemaden ==
    \/ TestConnection
    \/ Scrape
    \/ ProcessAlerts
    \/ RemoveDuplicates
    \/ SaveData
    \/ CemadenMain

SpecCemaden == InitCemaden /\ [][NextCemaden]_vars

----------------------------------------------------------------------------
(* Properties of the CEMADEN collector *)

\* C22: whenever run_scraper has returned a list that is not empty (main
\* then reports SUCCESS and 'Data saved to'), that list has been processed,
\* deduplicated and written to real_time_cemaden_data.json, on every path.
C22_ReturnedListWasSaved ==
    (pc \in {"scraper_returned", "main_done"} /\ handed_back # <<>>) =>
        /\ "process_alerts" \in {called[i] : i \in 1..Len(called)}
        /\ "remove_duplicates" \in {called[i] : i \in 1..Len(called)}
        /\ "save_data" \in {called[i] : i \in 1..Len(called)}
        /\ disk = FileOf(handed_back)

Combination(alert) == <<alert.municipio, alert.uf, alert.tipo_alerta>>

\* the place in the list of the alert to keep for a combination: the
\* earliest among those of the greatest timestamp
PlaceToKeep(alert_list, combination) ==
    LET same == {i \in 1..Len(alert_list) : Combination(alert_list[i]) = combination}
        latest == {i \in same : \A j \in same :
                                   alert_list[i].timestamp >= alert_list[j].timestamp}
    IN CHOOSE i \in latest : \A j \in latest : i <= j

\* C23: remove_duplicates returns exactly one alert for each combination
\* of municipio, uf and tipo_alerta of its input, the earliest-listed of
\* those with the greatest timestamp of the combination, and returns its
\* own output unchanged.
C23_OnePerCombinationMostRecent ==
    pc \in {"save_data", "scraper_returned", "main_done"} /\ collector.processed_alerts # <<>> =>
        LET given == collector.processed_alerts
            kept == collector.final_alerts
        IN /\ {Combination(kept[j]) : j \in 1..Len(kept)}
                  = {Combination(given[i]) : i \in 1..Len(given)}
           /\ \A j, k \in 1..Len(kept) :
                  Combination(kept[j]) = Combination(kept[k]) => j = k
           /\ \A j \in 1..Len(kept) :
                  kept[j] = given[PlaceToKeep(given, Combination(kept[j]))]
           /\ remove_duplicates(kept) = kept

\* three alerts of one combination, the later two of one time: the second
\* is kept
C23_Witness ==
    /\ pc = "save_data"
    /\ collector.processed_alerts =
           << Alert("Recife", "PE", "Risco Hidrológico", "Alto", 1),
              Alert("Recife", "PE", "Risco Hidrológico", "Muito Alto", 2),
              Alert("Recife", "PE", "Risco Hidrológico", "Moderado", 2) >>
    /\ collector.final_alerts = <<Alert("Recife", "PE", "Risco Hidrológico", "Muito Alto", 2)>>

----------------------------------------------------------------------------
(* snisb_dam_collector.py: SNISBDataCollector.load_and_filter_data and      *)
(* create_geodataframe.  Coordinates are in tenths of a degree.             *)

\* a row of the SNISB CSV: Risk Category (G), Damage Potential (H),
\* latitude (AN) and longitude (AO)
Dam(G, H, AN, AO) == [G |-> G, H |-> H, AN |-> AN, AO |-> AO]

\* rows of every pair of levels the filters tell apart, and rows inside,
\* on and outside the limits, at zero and without a coordinate
DamRows ==
    { Dam("Alto", "Alto", Number(-94), Number(-408)),
      Dam("Alto", "Médio", Number(-254), Number(-546)),
      Dam("Médio", "Alto", Number(-38), Number(-496)),
      Dam("Médio", "Médio", Number(-184), Number(-480)),
      Dam("Baixo", "Alto", Number(-94), Number(-408)),
      Dam("Alto", "Baixo", Number(-94), Number(-408)),
      Dam("Alto", "Alto", Number(-338), Number(-740)),
      Dam("Alto", "Alto", Number(54), Number(-288)),
      Dam("Alto", "Alto", Number(55), Number(-500)),
      Dam("Alto", "Alto", Number(-100), Number(-287)),
      Dam("Alto", "Alto", Number(0), Number(-500)),
      Dam("Alto", "Alto", Missing, Number(-500)) }

valid_damage_levels == {"Alto", "Médio"}
valid_risk_levels == {"Alto", "Médio"}

\* self.brazil_bounds of SNISBDataCollector
snisb_brazil_bounds == [min_lat |-> -338, max_lat |-> 54, min_lon |-> -740, max_lon |-> -288]

\* a filter that lets every remaining dam through
brazil_filter_open(dam) == TRUE

\* brazil_filter of validate_coordinates_in_brazil; a missing coordinate
\* compares False
brazil_filter(dam) ==
    /\ dam.AN.kind = "number" /\ dam.AO.kind = "number"
    /\ dam.AN.value >= snisb_brazil_bounds.min_lat
    /\ dam.AN.value <= snisb_brazil_bounds.max_lat
    /\ dam.AO.value >= snisb_brazil_bounds.min_lon
    /\ dam.AO.value <= snisb_brazil_bounds.max_lon

validate_coordinates_in_brazil(df) == SubSeqOf(df, {i \in 1..Len(df) : brazil_filter(df[i])})

\* notna() & notna() & (AN != 0) & (AO != 0)
coord_filter(dam) ==
    /\ dam.AN.kind = "number"
    /\ dam.AO.kind = "number"
    /\ dam.AN.value # 0
    /\ dam.AO.value # 0

\* load_and_filter_data after read_csv
load_and_filter_data(df) ==
    LET combined == SubSeqOf(df, {i \in 1..Len(df) :
                        /\ df[i].H \in valid_damage_levels
                        /\ df[i].G \in valid_risk_levels})
        located == SubSeqOf(combined, {i \in 1..Len(combined) : coord_filter(combined[i])})
    IN validate_coordinates_in_brazil(located)

calculate_combined_risk(damage, risk) ==
    IF damage = "Alto" /\ risk = "Alto" THEN "Critical"
    ELSE IF damage = "Alto" \/ risk = "Alto" THEN "High"
    ELSE "Medium"

\* create_geodataframe: Point(AO, AN) and the columns the assessment reads
snisb_create_geodataframe(df) ==
    [i \in 1..Len(df) |->
        [geometry |-> [x |-> df[i].AO.value, y |-> df[i].AN.value],
         risk_category |-> df[i].G,
         damage_potential |-> df[i].H,
         latitude |-> df[i].AN.value,
         longitude |-> df[i].AO.value,
         risk_level |-> calculate_combined_risk(df[i].H, df[i].G)]]

InitSnisb ==
    /\ pc = "load_and_filter_data"
    /\ remote \in UNION {[1..n -> DamRows] : n \in 0..MaxDams}
    /\ collector = [filtered_df |-> <<>>]
    /\ disk = <<>>
    /\ called = <<>>
    /\ handed_back = <<>>
    /\ IdleBesideCollection

LoadAndFilterData ==
    /\ pc = "load_and_filter_data"
    /\ collector' = [filtered_df |-> load_and_filter_data(remote)]
    /\ called' = Append(called, "load_and_filter_data")
    /\ pc' = "create_geodataframe"
    /\ UNCHANGED <<remote, disk, handed_back, beside_collection>>

\* create_geodataframe, and save_geospatial_data writing its points
SnisbCreateGeodataframe ==
    /\ pc = "create_geodataframe"
    /\ handed_back' = snisb_create_geodataframe(collector.filtered_df)
    /\ disk' = [snisb_dam_points |-> snisb_create_geodataframe(collector.filtered_df)]
    /\ called' = Append(called, "create_geodataframe")
    /\ pc' = "points_saved"
    /\ UNCHANGED <<remote, collector, beside_collection>>

NextSnisb ==
    \/ LoadAndFilterData
    \/ SnisbCreateGeodataframe

SpecSnisb == InitSnisb /\ [][NextSnisb]_vars

\* what the statement asks of a dam that is kept
DamToKeep(dam) ==
    /\ dam.H \in {"Alto", "Médio"}
    /\ dam.G \in {"Alto", "Médio"}
    /\ dam.AN.kind = "number" /\ dam.AO.kind = "number"
    /\ dam.AN.value # 0 /\ dam.AO.value # 0
    /\ -338 <= dam.AN.value /\ dam.AN.value <= 54
    /\ -740 <= dam.AO.value /\ dam.AO.value <= -288

\* C24: load_and_filter_data keeps a dam exactly when its Damage Potential
\* and its Risk Category are each 'Alto' or 'Médio' and its latitude and
\* longitude are present, not zero and within -33.8..5.4 and -74.0..-28.8;
\* no point written lies outside those limits, and every dam kept gets
\* risk_level 'Critical' (both Alto), 'High' (one Alto) or 'Medium'
\* (both Médio).
C24_KeptIffBothLevelsAndInBrazil ==
    /\ pc \in {"create_geodataframe", "points_saved"} =>
          collector.filtered_df = SubSeqOf(remote, {i \in 1..Len(remote) : DamToKeep(remote[i])})
    /\ pc = "points_saved" =>
          /\ Len(disk.snisb_dam_points) = Len(collector.filtered_df)
          /\ \A i \in 1..Len(disk.snisb_dam_points) :
                LET point == disk.snisb_dam_points[i]
                    both == {point.damage_potential, point.risk_category}
                IN /\ -338 <= point.geometry.y /\ point.geometry.y <= 54
                   /\ -740 <= point.geometry.x /\ point.geometry.x <= -288
                   /\ point.geometry.y = collector.filtered_df[i].AN.value
                   /\ point.geometry.x = collector.filtered_df[i].AO.value
                   /\ point.risk_level =
                         (CASE both = {"Alto"} -> "Critical"
                            [] both = {"Alto", "Médio"} -> "High"
                            [] both = {"Médio"} -> "Medium")

\* a dam on the corner of the limits kept as Critical, one just east of
\* them dropped
C24_Witness ==
    /\ pc = "points_saved"
    /\ remote = << Dam("Alto", "Alto", Number(-100), Number(-287)),
                   Dam("Alto", "Alto", Number(54), Number(-288)) >>
    /\ Len(disk.snisb_dam_points) = 1
    /\ disk.snisb_dam_points[1].geometry = [x |-> -288, y |-> 54]
    /\ disk.snisb_dam_points[1].risk_level = "Critical"

----------------------------------------------------------------------------
(* iphan.py: IPHANDataExtractor.extract_all_data and check_for_edited_file *)

\* a feature of a GeoJSON file of heritage sites as its JSON stands
SiteFeature(geometry, ds_natureza) == [geometry |-> geometry, ds_natureza |-> ds_natureza]

EditedCatalog ==
    { SiteFeature(json_number(-500000), json_string("Bem Arqueológico")),
      SiteFeature(json_number(-430000), json_null),
      SiteFeature(json_null, json_string("Bem Arqueológico")) }

\* what the layers of the GeoServer give when collected
CollectedSites == <<SiteFeature(json_number(-470000), json_string("Bem Arqueológico"))>>

\* gpd.read_file on a file of heritage sites
read_sites(features) ==
    [k \in 1..Len(features) |->
        [geometry |-> geometry_of_json(features[k].geometry),
         ds_natureza |-> text_of_json(features[k].ds_natureza)]]

\* gdf.to_file(final_output, driver='GeoJSON') on the frame read
write_sites(gdf) ==
    [k \in 1..Len(gdf) |->
        [geometry |-> json_of_geometry(gdf[k].geometry),
         ds_natureza |-> json_of_text(gdf[k].ds_natureza)]]

\* an os.path.exists that never finds the edited file
edited_file_exists_never(file) == FALSE

\* os.path.exists(edited_file)
edited_file_exists(file) == file.exists

\* whether to_file raises: the disk refuses the write, or the frame has no
\* row and the geopandas of the build refuses to write an empty frame
to_file_raises(gdf, build) ==
    \/ build.write_fails
    \/ Len(gdf) = 0 /\ build.empty_write_raises

\* check_for_edited_file: the frame read, or None; an exception of
\* read_file or of to_file is logged and None returned
check_for_edited_file(file, build) ==
    IF ~edited_file_exists(file) THEN [none |-> TRUE, written |-> FALSE, gdf |-> <<>>]
    ELSE IF ~file.readable THEN [none |-> TRUE, written |-> FALSE, gdf |-> <<>>]
    ELSE IF to_file_raises(read_sites(file.records), build)
    THEN [none |-> TRUE, written |-> FALSE, gdf |-> <<>>]
    ELSE [none |-> FALSE, written |-> TRUE, gdf |-> read_sites(file.records)]

InitIphan ==
    /\ pc = "extract_all_data"
    /\ remote \in [edited : {Absent, Corrupt} \cup
                            {Holding(f) : f \in UNION {[1..n -> EditedCatalog] :
                                                          n \in 0..MaxEdited}},
                   build : [write_fails : BOOLEAN, empty_write_raises : BOOLEAN],
                   layers : {"none", "inaccessible", "accessible"}]
    /\ collector = [client_ready_data |-> <<>>]
    /\ disk \in {[final_output |-> Absent], [final_output |-> Holding(CollectedSites)]}
    /\ called = <<>>
    /\ handed_back = "running"
    /\ IdleBesideCollection

\* extract_all_data up to its first return
CheckForEditedFile ==
    /\ pc = "extract_all_data"
    /\ LET edited_data == check_for_edited_file(remote.edited, remote.build)
       IN /\ disk' = IF edited_data.written
                     THEN [final_output |-> Holding(write_sites(edited_data.gdf))]
                     ELSE disk
          /\ IF edited_data.none
             THEN pc' = "discover_layers" /\ UNCHANGED handed_back
             ELSE pc' = "iphan_returned" /\ handed_back' = "True"
    /\ called' = Append(called, "check_for_edited_file")
    /\ UNCHANGED <<remote, collector, beside_collection>>

\* Step 1: return without a value when no layer is found
DiscoverLayers ==
    /\ pc = "discover_layers"
    /\ called' = Append(called, "discover_layers")
    /\ IF remote.layers = "none"
       THEN pc' = "iphan_returned" /\ handed_back' = "None"
       ELSE pc' = "test_layer_access" /\ UNCHANGED handed_back
    /\ UNCHANGED <<remote, collector, disk, beside_collection>>

\* Step 2: return without a value when no layer is accessible
TestLayerAccess ==
    /\ pc = "test_layer_access"
    /\ called' = Append(called, "test_layer_access")
    /\ IF remote.layers = "inaccessible"
       THEN pc' = "iphan_returned" /\ handed_back' = "None"
       ELSE pc' = "get_layer_data" /\ UNCHANGED handed_back
    /\ UNCHANGED <<remote, collector, disk, beside_collection>>

\* Step 3 and create_integrated_dataset: the sites collected are written to
\* final_output/iphan_heritage_sites.geojson; the method ends without a
\* return value
GetLayerData ==
    /\ pc = "get_layer_data"
    /\ called' = called \o <<"get_layer_data", "create_integrated_dataset">>
    /\ collector' = [client_ready_data |-> CollectedSites]
    /\ disk' = IF remote.build.write_fails THEN disk
               ELSE [final_output |-> Holding(CollectedSites)]
    /\ pc' = IF remote.build.write_fails THEN "iphan_raised" ELSE "iphan_returned"
    /\ handed_back' = IF remote.build.write_fails THEN "raised" ELSE "None"
    /\ UNCHANGED <<remote, beside_collection>>

NextIphan ==
    \/ CheckForEditedFile
    \/ DiscoverLayers
    \/ TestLayerAccess
    \/ GetLayerData

SpecIphan == InitIphan /\ [][NextIphan]_vars

----------------------------------------------------------------------------
(* Properties of the IPHAN extractor *)

WFSRequests == {"discover_layers", "test_layer_access", "get_layer_data"}
Requested == {called[i] : i \in 1..Len(called)} \cap WFSRequests

CopyWritten ==
    /\ remote.edited.exists
    /\ remote.edited.readable
    /\ ~remote.build.write_fails
    /\ ~(Len(remote.edited.records) = 0 /\ remote.build.empty_write_raises)

----------------------------------------------------------------------------
(* create_comprehensive_analysis: risk_breakdown_by_source *)

\* the mask of multiple_risks_sites: & binds tighter than |, so it reads
\* (cemaden > 0 & dam > 0) | (fire > 0)
multiple_risks_mask(site) ==
    \/ site.cemaden_risk_score > 0 /\ site.dam_risk_score > 0
    \/ site.fire_risk_score > 0

\* len(heritage_final[mask]) for each of the four masks
risk_breakdown_by_source(heritage_final) ==
    [cemaden_affected_sites |->
         Cardinality({k \in 1..Len(heritage_final) : heritage_final[k].cemaden_risk_score > 0}),
     dam_affected_sites |->
         Cardinality({k \in 1..Len(heritage_final) : heritage_final[k].dam_risk_score > 0}),
     fire_affected_sites |->
         Cardinality({k \in 1..Len(heritage_final) : heritage_final[k].fire_risk_score > 0}),
     multiple_risks_sites |->
         Cardinality({k \in 1..Len(heritage_final) : multiple_risks_mask(heritage_final[k])})]

\* the risk sources that affect a site
SourcesAffecting(site) ==
    {s \in {"cemaden", "dam", "fire"} :
        CASE s = "cemaden" -> site.cemaden_risk_score > 0
          [] s = "dam" -> site.dam_risk_score > 0
          [] s = "fire" -> site.fire_risk_score > 0}

\* C26: multiple_risks_sites is the number of sites with at least two of
\* cemaden_risk_score, dam_risk_score and fire_risk_score greater than 0; a
\* site with one nonzero component is never counted.
C26_MultipleRisksCountsTwoOrMore ==
    pc = "done" =>
        risk_breakdown_by_source(rows).multiple_risks_sites
            = Cardinality({k \in 1..Len(rows) : Cardinality(SourcesAffecting(rows[k])) >= 2})

----------------------------------------------------------------------------
(* calculate_comprehensive_risk on the most severe inputs *)

\* alerts of the highest severity and the heaviest types for one
\* municipality, and one alert that takes both defaults
SevereAlertCatalog ==
    << [municipio |-> "Ouro Preto", uf |-> "MG", tipo_alerta |-> "Risco Geológico", nivel |-> "Muito Alto"],
       [municipio |-> "Ouro Preto", uf |-> "MG", tipo_alerta |-> "Mov. Massa", nivel |-> "Muito Alto"],
       [municipio |-> "Ouro Preto", uf |-> "MG", tipo_alerta |-> "Risco Hidrológico", nivel |-> "Muito Alto"],
       [municipio |-> "Mariana", uf |-> "MG", tipo_alerta |-> "Vendaval", nivel |-> "Observação"] >>

\* fire-risk polygons of the highest and of the lowest level
SevereFireCatalog ==
    << [lo |-> -500000, hi |-> 3500000, risk_level |-> "Muito Alto"],
       [lo |-> 3500001, hi |-> 6000000, risk_level |-> "Muito Baixo"] >>

InitSevere ==
    /\ pc = "join"
    /\ heritage \in SubSequences(SiteCatalog, 1, MaxSites)
    /\ boundaries \in SubSequences(BoundaryCatalog, 0, Len(BoundaryCatalog))
    /\ alerts \in SubSequences(SevereAlertCatalog, 1, MaxSevereAlerts)
    /\ dams \in SubSequences(DamCatalog, 0, Len(DamCatalog))
    /\ fires \in SubSequences(SevereFireCatalog, 0, Len(SevereFireCatalog))
    /\ rows = <<>>
    /\ municipal = <<>>
    /\ reordered = <<>>
    /\ batch_cut = 0
    /\ aggregates = <<>>
    /\ IdleElsewhere

SpecSevere == InitSevere /\ [][Next]_vars

\* C27: whatever the inputs, the municipal score is at most 10, the dam
\* score is 0 or 3, the fire score is at most 5, comprehensive_risk_score
\* lies between 0 and 6.4 (6400 thousandths), and no site is categorised
\* 'Muito Alto'.
C27_ScoreAtMostSixPointFour ==
    /\ \A g \in 1..Len(municipal) :
          municipal[g].cemaden_risk_score \in 0..ScoreCeilingHundredths
    /\ DamDone => \A k \in 1..Len(rows) : rows[k].dam_risk_score \in {0, 3}
    /\ FireDone => \A k \in 1..Len(rows) : rows[k].fire_risk_score \in 0..5
    /\ pc = "done" =>
          \A k \in 1..Len(rows) :
              /\ rows[k].cemaden_risk_score \in 0..ScoreCeilingHundredths
              /\ rows[k].comprehensive_risk_score \in 0..6400
              /\ rows[k].comprehensive_risk_category # "Muito Alto"

\* a site with every component at its maximum: 10, 3 and 5 give 6.4, 'Alto'
C27_Witness ==
    /\ pc = "done"
    /\ \E k \in 1..Len(rows) :
          /\ rows[k].cemaden_risk_score = 1000
          /\ rows[k].dam_risk_score = 3
          /\ rows[k].fire_risk_score = 5
          /\ rows[k].comprehensive_risk_score = 6400
          /\ rows[k].comprehensive_risk_category = "Alto"

----------------------------------------------------------------------------
(* calculate_comprehensive_risk on the files the collectors write *)

\* alerts a scraping run extracts for municipalities of the boundary file
CollectedCatalog ==
    { Alert("Ouro Preto", "MG", "Risco Geológico", "Muito Alto", 1),
      Alert("Ouro Preto", "MG", "Risco Hidrológico", "Muito Alto", 1),
      Alert("Ouro Preto", "MG", "Risco Geológico", "Alto", 2),
      Alert("Mariana", "MG", "Risco Hidrológico", "Moderado", 1) }

\* what run_scraper hands to save_data: the scraped alerts, or the sample
\* when scraping finds none, processed and deduplicated
CollectedAlerts ==
    {remove_duplicates(process_alerts(raw)) :
        raw \in {create_sample_data}
                    \cup UNION {[1..n -> CollectedCatalog] : n \in 1..MaxCollected}}

\* a Point feature of the INPE files on the parallel: the only site within
\* it is the site at x
FirePoint(x, risk_level) == [lo |-> x - 1, hi |-> x + 1, risk_level |-> risk_level]

\* points as process_risk_files and generate_test_data label them
FirePointCatalog ==
    << FirePoint(0, "high"), FirePoint(3000000, "moderate") >>

\* the .geojson files of inpe_data/geojson: none before the first run;
\* current_fire_points and its timestamped copy after a run of save_data;
\* the first alone when the second to_file raises
GeojsonDirectories ==
    {<<>>} \cup UNION {{<<file>>, <<file, file>>} :
                          file \in SubSequences(FirePointCatalog, 1, Len(FirePointCatalog))}

\* load_inpe_fire_data: pd.concat of every file read, the risk_level
\* column of the files kept
load_inpe_fire_data(directory) == Flatten(directory)

InitCollected ==
    /\ pc = "join"
    /\ heritage \in SubSequences(SiteCatalog, 1, MaxSites)
    /\ boundaries \in SubSequences(BoundaryCatalog, 2, Len(BoundaryCatalog))
    /\ alerts \in CollectedAlerts
    /\ dams \in SubSequences(DamCatalog, 0, Len(DamCatalog))
    /\ fires \in {load_inpe_fire_data(directory) : directory \in GeojsonDirectories}
    /\ rows = <<>>
    /\ municipal = <<>>
    /\ reordered = <<>>
    /\ batch_cut = 0
    /\ aggregates = <<>>
    /\ IdleElsewhere

SpecCollected == InitCollected /\ [][Next]_vars

\* C28: on the files of the collectors every municipality has at most two
\* alerts and a municipal score of at most 6.75 (675 hundredths), every
\* fire_risk_score is 0 or 2, every comprehensive_risk_score is at most 4.2
\* (4200 thousandths), and no site is categorised 'Alto' or 'Muito Alto'.
C28_CollectedInputsStayModerate ==
    /\ \A key \in KeysOf(alerts) :
          Cardinality({i \in 1..Len(alerts) :
                          <<alerts[i].municipio, alerts[i].uf>> = key}) <= 2
    /\ \A g \in 1..Len(municipal) :
          /\ municipal[g].cemaden_alerts <= 2
          /\ municipal[g].cemaden_risk_score <= 675
          /\ municipal[g].cemaden_risk_score < ScoreCeilingHundredths
    /\ FireDone => \A k \in 1..Len(rows) : rows[k].fire_risk_score \in {0, 2}
    /\ pc = "done" =>
          \A k \in 1..Len(rows) :
              /\ rows[k].comprehensive_risk_score <= 4200
              /\ rows[k].comprehensive_risk_category \notin {"Alto", "Muito Alto"}

\* a site of a municipality with two 'Muito Alto' alerts, near a dam and
\* on a fire point: 6.75, 3 and 2 give 4.2, 'Moderado'
C28_Witness ==
    /\ pc = "done"
    /\ \E k \in 1..Len(rows) :
          /\ rows[k].cemaden_alerts = 2
          /\ rows[k].cemaden_risk_score = 675
          /\ rows[k].dam_risk_score = 3
          /\ rows[k].fire_risk_score = 2
          /\ rows[k].comprehensive_risk_score = 4200
          /\ rows[k].comprehensive_risk_category = "Moderado"

====
